---- MODULE Spec2Model ----
(***************************************************************************)
(* A model of hermes, the audit-event query service:                       *)
(*   - pkg/keystone/keystone.go: the token cache, the name/id caches and   *)
(*     the identity client built on them;                                  *)
(*   - pkg/hermes/events.go: the filter translator and the query service;  *)
(*   - the earlier query service with no enrichment flag (unnamed          *)
(*     part_002) that the package test (part_001) exercises;               *)
(*   - pkg/storage: the storage interface and its mock.                    *)
(***************************************************************************)
EXTENDS Integers, Sequences, FiniteSets, TLC

(***************************************************************************)
(* Bounds of the model.                                                    *)
(***************************************************************************)
\* goroutines that use the identity client concurrently
NumProcs == 2
\* the clock runs over 0..MaxTime
MaxTime == 2
\* at most this many expiry instants are kept in eList
MaxList == 3

Procs == 1..NumProcs
Times == 0..MaxTime

(***************************************************************************)
(* keystoneToken and its parts (keystone.go, 443-459).  ExpiresAt is a     *)
(* string in the code; here it is either well formed for the layout of     *)
(* addTokenToCache, naming an instant, or malformed.                       *)
(***************************************************************************)
Thing(id, name) == [ID |-> id, Name |-> name]
NoThing == Thing("", "")
ThingInDomain(id, name, dom) == [ID |-> id, Name |-> name, Domain |-> dom]
NoThingInDomain == ThingInDomain("", "", NoThing)

WellFormed(t) == [wf |-> TRUE, at |-> t]
Malformed == [wf |-> FALSE, at |-> 0]

keystoneToken(dom, proj, roles, user, exp) ==
    [DomainScope |-> dom, ProjectScope |-> proj, Roles |-> roles,
     User |-> user, ExpiresAt |-> exp]

\* a nil *keystoneToken
NilToken == [nil |-> TRUE]

\* time.Parse("2006-01-02T15:04:05.999999Z", s): the instant, or an error
ParseTime(s) == IF s.wf THEN [err |-> FALSE, t |-> s.at] ELSE [err |-> TRUE, t |-> 0]

\* the token strings presented to the service
TokenIds == {"T1", "T2"}

(***************************************************************************)
(* container/list, as the token cache uses it.  An element is a pair of    *)
(* its identity (the pointer) and its value; a list is the sequence of its *)
(* elements, front first.                                                  *)
(***************************************************************************)
NilElem == [id |-> 0, v |-> 0]
Elem(id, v) == [id |-> id, v |-> v]
InList(l, e) == \E i \in 1..Len(l) : l[i].id = e.id
IndexOf(l, e) == CHOOSE i \in 1..Len(l) : l[i].id = e.id
Front(l) == IF Len(l) = 0 THEN NilElem ELSE l[1]
Back(l) == IF Len(l) = 0 THEN NilElem ELSE l[Len(l)]
ElemPrev(l, e) == IF ~InList(l, e) \/ IndexOf(l, e) = 1 THEN NilElem ELSE l[IndexOf(l, e) - 1]
PushBack(l, e) == Append(l, e)
\* Remove is a no-op for an element that is no longer in the list
ListRemove(l, e) == SelectSeq(l, LAMBDA x : x.id # e.id)
MoveAfter(l, e, mark) ==
    IF ~InList(l, e) \/ ~InList(l, mark) \/ e.id = mark.id THEN l
    ELSE LET r == ListRemove(l, e)
             j == IndexOf(r, mark)
         IN SubSeq(r, 1, j) \o <<e>> \o SubSeq(r, j + 1, Len(r))

VARIABLES
    now,            \* the wall clock that time.Now() reads
    tMap,           \* tokenCache.tMap: token string -> token
    eMap,           \* tokenCache.eMap: expiry instant -> token strings
    eList,          \* tokenCache.eList: list of expiry instants
    caches,         \* the six name/id caches, by the name of their variable
    providerClient, \* the service-account client, or nil
    pc,             \* where each goroutine is in its call
    loc,            \* each goroutine's locals
    enrich,         \* the configuration flag hermes.enrich_keystone_events
    h               \* the last call of the query service and what it did

vars == <<now, tMap, eMap, eList, caches, providerClient, pc, loc, enrich, h>>
tokenCacheVars == <<tMap, eMap, eList>>
hermesVars == <<enrich, h>>

(***************************************************************************)
(* Go maps: partial functions.                                             *)
(***************************************************************************)
EmptyMap == [x \in {} |-> 0]
MapPut(m, k, v) == [x \in (DOMAIN m) \cup {k} |-> IF x = k THEN v ELSE m[x]]
MapDel(m, ks) == [x \in (DOMAIN m) \ ks |-> m[x]]
Range(s) == {s[i] : i \in DOMAIN s}

\* the locals of a goroutine that is in no call
NoContext == [Roles |-> <<>>, Auth |-> EmptyMap]
NoPrev == [arg |-> "", ctx |-> NoContext, exp |-> Malformed]
NoLocals ==
    [op |-> "none", arg |-> "", tok |-> NilToken, now |-> 0, elemsToRemove |-> <<>>,
     token |-> NilToken, hit |-> FALSE, lookups |-> 0, auths |-> 0, refreshed |-> FALSE,
     writes |-> <<>>, ret |-> "", err |-> FALSE, ctx |-> NoContext, found |-> 0,
     prev |-> NoPrev, locks |-> {}, sentWith |-> "none"]

\* a fresh list element: a pointer no list and no goroutine holds
UsedElemIds == {eList[i].id : i \in 1..Len(eList)}
                 \cup UNION {{e.id : e \in Range(loc[p].elemsToRemove)} : p \in Procs}
NewElemId == CHOOSE n \in 1..(Cardinality(UsedElemIds) + 1) :
                 /\ n \notin UsedElemIds
                 /\ \A m \in 1..(n - 1) : m \in UsedElemIds

(***************************************************************************)
(* addTokenToCache (keystone.go, 71-98).                                   *)
(***************************************************************************)
\* the loop of lines 83-87: e walks from the back to the front, and the
\* back element is moved after every e whose value is earlier than expiryTime
RECURSIVE shiftLoop(_, _, _)
shiftLoop(l, e, expiryTime) ==
    IF e = NilElem THEN l
    ELSE LET moved == IF expiryTime > e.v THEN MoveAfter(l, Back(l), e) ELSE l
         IN shiftLoop(moved, ElemPrev(moved, e), expiryTime)

\* the instant of a bucket that exists already is not pushed again
pushExpiry_once(l, new) == IF new.v \in DOMAIN eMap \/ Len(l) > 0 THEN l ELSE PushBack(l, new)
\* lines 78-88: lastItem is read after PushBack, so it is the new element
pushExpiry(l, new) ==
    LET pushed == PushBack(l, new)
        lastItem == Back(pushed)
    IN IF Back(pushed) # NilElem /\ new.v < lastItem.v
       THEN shiftLoop(pushed, Back(pushed), new.v)
       ELSE pushed

addTokenToCache_unstored(id, token) == [tMap |-> tMap, eMap |-> eMap, eList |-> eList]
\* the cache after addTokenToCache(tokenCache, id, token)
addTokenToCache(id, token) ==
    LET parsed == ParseTime(token.ExpiresAt)
        expiryTime == parsed.t
    IN IF parsed.err
       THEN [tMap |-> tMap, eMap |-> eMap, eList |-> eList]
       ELSE [eList |-> pushExpiry(eList, Elem(NewElemId, expiryTime)),
             eMap |-> IF expiryTime \notin DOMAIN eMap
                      THEN MapPut(eMap, expiryTime, <<id>>)
                      ELSE MapPut(eMap, expiryTime, Append(eMap[expiryTime], id)),
             tMap |-> MapPut(tMap, id, token)]

(***************************************************************************)
(* getCachedToken (keystone.go, 100-138), one step per critical section.   *)
(***************************************************************************)
\* lines 105-112: the elements from the front up to the first unexpired one
RECURSIVE expiredPrefix(_, _)
expiredPrefix(l, t) ==
    IF Len(l) = 0 \/ t < Head(l).v THEN <<>>
    ELSE <<Head(l)>> \o expiredPrefix(Tail(l), t)

evictElems_bucket(elems) ==
    LET times == {e.v : e \in Range(elems)}
    IN [eList |-> SelectSeq(eList, LAMBDA x : \A e \in Range(elems) : x.id # e.id),
        eMap |-> MapDel(eMap, times),
        tMap |-> tMap]
\* lines 115-123: the cache after the collected elements are removed
evictElems(elems) ==
    LET times == {e.v : e \in Range(elems)}
        gone == UNION {Range(eMap[t]) : t \in times \cap DOMAIN eMap}
    IN [eList |-> SelectSeq(eList, LAMBDA x : \A e \in Range(elems) : x.id # e.id),
        eMap |-> MapDel(eMap, times),
        tMap |-> MapDel(tMap, gone)]

\* cache.tMap[id]
cachedToken(id) == IF id \in DOMAIN tMap THEN tMap[id] ELSE NilToken

(***************************************************************************)
(* The token cache on its own: addTokenToCache and getCachedToken called   *)
(* by goroutine p.                                                         *)
(***************************************************************************)
\* the tokens the identity provider hands out, told apart by their expiry
PlainToken(exp) == keystoneToken(NoThing, NoThingInDomain, <<>>, NoThingInDomain, exp)
PlainTokens == {PlainToken(WellFormed(t)) : t \in Times} \cup {PlainToken(Malformed)}

Idle(p) == pc[p] \in {"idle", "done"}

Tick ==
    /\ now < MaxTime
    /\ now' = now + 1
    /\ UNCHANGED <<tMap, eMap, eList, caches, providerClient, pc, loc, enrich, h>>

AddTokenToCache(p, id, token) ==
    /\ Idle(p)
    /\ Len(eList) < MaxList
    /\ LET c == addTokenToCache(id, token)
       IN /\ tMap' = c.tMap
          /\ eMap' = c.eMap
          /\ eList' = c.eList
    /\ pc' = [pc EXCEPT ![p] = "done"]
    /\ loc' = [loc EXCEPT ![p] = [NoLocals EXCEPT !.op = "addTokenToCache",
                                                 !.arg = id, !.tok = token]]
    /\ UNCHANGED <<now, caches, providerClient, enrich, h>>

\* line 102: now := time.Now()
GetCachedTokenBegin(p, id) ==
    /\ Idle(p)
    /\ pc' = [pc EXCEPT ![p] = "get_scan"]
    /\ loc' = [loc EXCEPT ![p] = [NoLocals EXCEPT !.op = "getCachedToken",
                                                 !.arg = id, !.now = now]]
    /\ UNCHANGED <<now, tMap, eMap, eList, caches, providerClient, enrich, h>>

\* lines 104-113, under the read lock
GetCachedTokenScan(p) ==
    /\ pc[p] = "get_scan"
    /\ pc' = [pc EXCEPT ![p] = "get_evict"]
    /\ loc' = [loc EXCEPT ![p].elemsToRemove = expiredPrefix(eList, loc[p].now)]
    /\ UNCHANGED <<now, tMap, eMap, eList, caches, providerClient, enrich, h>>

\* lines 114-125, under the write lock
GetCachedTokenEvict(p) ==
    /\ pc[p] = "get_evict"
    /\ LET c == evictElems(loc[p].elemsToRemove)
       IN /\ tMap' = c.tMap
          /\ eMap' = c.eMap
          /\ eList' = c.eList
    /\ pc' = [pc EXCEPT ![p] = "get_lookup"]
    /\ UNCHANGED <<now, caches, providerClient, loc, enrich, h>>

\* lines 130-137, under the read lock; the elements collected are dropped
\* with the call's frame
GetCachedTokenLookup(p) ==
    /\ pc[p] = "get_lookup"
    /\ loc[p].op = "getCachedToken"
    /\ pc' = [pc EXCEPT ![p] = "done"]
    /\ loc' = [loc EXCEPT ![p].token = cachedToken(loc[p].arg),
                          ![p].elemsToRemove = <<>>]
    /\ UNCHANGED <<now, tMap, eMap, eList, caches, providerClient, enrich, h>>

NoCaches ==
    [domainNameCache |-> EmptyMap, projectNameCache |-> EmptyMap,
     userNameCache |-> EmptyMap, userIdCache |-> EmptyMap,
     roleNameCache |-> EmptyMap, groupNameCache |-> EmptyMap]
NoClient == [nil |-> TRUE]
NoCall == [op |-> "none"]

\* the state after init() (keystone.go, 149-161), with no request served yet
Init ==
    /\ now = 0
    /\ tMap = EmptyMap
    /\ eMap = EmptyMap
    /\ eList = <<>>
    /\ caches = NoCaches
    /\ providerClient = NoClient
    /\ pc = [p \in Procs |-> "idle"]
    /\ loc = [p \in Procs |-> NoLocals]
    /\ enrich = FALSE
    /\ h = NoCall

TokenCacheStep(p) ==
    \/ \E id \in TokenIds, token \in PlainTokens : AddTokenToCache(p, id, token)
    \/ \E id \in TokenIds : GetCachedTokenBegin(p, id)
    \/ GetCachedTokenScan(p)
    \/ GetCachedTokenEvict(p)
    \/ GetCachedTokenLookup(p)

\* one goroutine: inserts and gets one after the other
SeqNext == Tick \/ TokenCacheStep(1)
SpecTokenSeq == Init /\ [][SeqNext]_vars

\* any interleaving of the goroutines' inserts and gets
TokenNext == Tick \/ \E p \in Procs : TokenCacheStep(p)
SpecTokenCache == Init /\ [][TokenNext]_vars

\* gets racing with inserts: goroutine 1 inserts and gets, every other
\* goroutine gets.  The token strings cached are T1 expiring at 1 and T2
\* expiring at 2 or at 1, so that two strings share an instant and one
\* string is cached under two instants
RacePairs ==
    {<<"T1", PlainToken(WellFormed(1))>>, <<"T2", PlainToken(WellFormed(2))>>,
     <<"T2", PlainToken(WellFormed(1))>>}
GetStep(p) ==
    \/ \E id \in TokenIds : GetCachedTokenBegin(p, id)
    \/ GetCachedTokenScan(p)
    \/ GetCachedTokenEvict(p)
    \/ GetCachedTokenLookup(p)
RaceNext ==
    \/ Tick
    \/ \E pair \in RacePairs : AddTokenToCache(1, pair[1], pair[2])
    \/ \E p \in Procs : GetStep(p)
SpecTokenRace == Init /\ [][RaceNext]_vars

(***************************************************************************)
(* The name/id caches (keystone.go, 46-62) and what the identity provider  *)
(* may be asked and may answer.                                            *)
(***************************************************************************)
NameOps == {"DomainName", "ProjectName", "UserName", "RoleName", "GroupName"}
LookupOps == NameOps \cup {"UserId"}

\* the cache a lookup reads and writes
cacheOf(op) ==
    CASE op = "DomainName" -> "domainNameCache"
      [] op = "ProjectName" -> "projectNameCache"
      [] op = "UserName" -> "userNameCache"
      [] op = "RoleName" -> "roleNameCache"
      [] op = "GroupName" -> "groupNameCache"
      [] op = "UserId" -> "userIdCache"

\* the ids (for UserId: the names) that callers ask for
ArgsOf(op) ==
    CASE op = "DomainName" -> {"d1", "d2"}
      [] op = "ProjectName" -> {"p1"}
      [] op = "UserName" -> {"u1"}
      [] op = "RoleName" -> {"r1"}
      [] op = "GroupName" -> {"g1"}
      [] op = "UserId" -> {"alice"}

\* the names the identity provider may answer a single-entity GET with
NamesOf(op) ==
    CASE op = "DomainName" -> {"Default", "Users"}
      [] op = "ProjectName" -> {"proj"}
      [] op = "UserName" -> {"alice", "bob"}
      [] op = "RoleName" -> {"admin"}
      [] op = "GroupName" -> {"ops"}

\* the lists of users (their UUIDs) a search by name may find
UserLists == {<<>>, <<"u1">>, <<"u2", "u1">>}

updateCache(c, cache, key, value) == [c EXCEPT ![cache] = MapPut(c[cache], key, value)]

getFromCache(cache, key) ==
    [value |-> IF key \in DOMAIN caches[cache] THEN caches[cache][key] ELSE "",
     exists |-> key \in DOMAIN caches[cache]]

Write(cache, key, value) == [cache |-> cache, key |-> key, value |-> value]

(***************************************************************************)
(* keystoneToken.ToContext (keystone.go, 461-496).                         *)
(***************************************************************************)
AuthOf(t) ==
    [user_id |-> t.User.ID, user_name |-> t.User.Name,
     user_domain_id |-> t.User.Domain.ID, user_domain_name |-> t.User.Domain.Name,
     domain_id |-> t.DomainScope.ID, domain_name |-> t.DomainScope.Name,
     project_id |-> t.ProjectScope.ID, project_name |-> t.ProjectScope.Name,
     project_domain_id |-> t.ProjectScope.Domain.ID,
     project_domain_name |-> t.ProjectScope.Domain.Name,
     tenant_id |-> t.ProjectScope.ID, tenant_name |-> t.ProjectScope.Name,
     tenant_domain_id |-> t.ProjectScope.Domain.ID,
     tenant_domain_name |-> t.ProjectScope.Domain.Name]

\* ToContext without the loop that deletes the empty values
ToContext_all(t) ==
    [Roles |-> [i \in 1..Len(t.Roles) |-> t.Roles[i].Name], Auth |-> AuthOf(t)]

ToContext(t) ==
    [Roles |-> [i \in 1..Len(t.Roles) |-> t.Roles[i].Name],
     Auth |-> [k \in {x \in DOMAIN AuthOf(t) : AuthOf(t)[x] # ""} |-> AuthOf(t)[k]]]

(***************************************************************************)
(* keystone.updateCaches (keystone.go, 222-242): after addTokenToCache,    *)
(* the calls of updateCache it makes, in order.                            *)
(***************************************************************************)
RECURSIVE roleWrites(_)
roleWrites(roles) ==
    IF Len(roles) = 0 THEN <<>>
    ELSE (IF Head(roles).ID # "" /\ Head(roles).Name # ""
          THEN <<Write("roleNameCache", Head(roles).ID, Head(roles).Name)>>
          ELSE <<>>) \o roleWrites(Tail(roles))

updateCaches(token) ==
    (IF token.DomainScope.ID # "" /\ token.DomainScope.Name # ""
     THEN <<Write("domainNameCache", token.DomainScope.ID, token.DomainScope.Name)>>
     ELSE <<>>)
    \o (IF token.ProjectScope.Domain.ID # "" /\ token.ProjectScope.Domain.Name # ""
        THEN <<Write("domainNameCache", token.ProjectScope.Domain.ID,
                     token.ProjectScope.Domain.Name)>>
        ELSE <<>>)
    \o (IF token.ProjectScope.ID # "" /\ token.ProjectScope.Name # ""
        THEN <<Write("projectNameCache", token.ProjectScope.ID, token.ProjectScope.Name)>>
        ELSE <<>>)
    \o (IF token.User.ID # "" /\ token.User.Name # ""
        THEN <<Write("userNameCache", token.User.ID, token.User.Name),
               Write("userIdCache", token.User.Name, token.User.ID)>>
        ELSE <<>>)
    \o roleWrites(token.Roles)

(***************************************************************************)
(* The token records the identity provider may answer an introspection     *)
(* with: project scoped, domain scoped, and one whose user has no name.    *)
(***************************************************************************)
ProjectToken(exp) ==
    keystoneToken(NoThing,
                  ThingInDomain("p1", "proj", Thing("d1", "Default")),
                  <<Thing("r1", "admin")>>,
                  ThingInDomain("u1", "alice", Thing("d2", "Users")),
                  exp)
DomainToken(exp) ==
    keystoneToken(Thing("d1", "Default"),
                  NoThingInDomain,
                  <<Thing("r1", "admin"), Thing("r2", "member")>>,
                  ThingInDomain("u1", "alice", Thing("d1", "Default")),
                  exp)
NamelessToken(exp) ==
    keystoneToken(NoThing,
                  ThingInDomain("p1", "", NoThing),
                  <<Thing("r1", "")>>,
                  ThingInDomain("u1", "", NoThing),
                  exp)
Expiries == {WellFormed(t) : t \in Times} \cup {Malformed}
TokenRecords ==
    {ProjectToken(e) : e \in Expiries} \cup {DomainToken(e) : e \in Expiries}
        \cup {NamelessToken(e) : e \in Expiries}

(***************************************************************************)
(* The identity client's calls, one step per critical section and per      *)
(* request to the identity provider.                                       *)
(***************************************************************************)
\* the call returns
Return(p, ret, err) ==
    /\ pc' = [pc EXCEPT ![p] = "done"]
    /\ loc' = [loc EXCEPT ![p].ret = ret, ![p].err = err]

\* DomainName .. GroupName and UserId up to the cache hit (e.g. 264-267)
LookupBegin(p, op, arg) ==
    /\ Idle(p)
    /\ LET c == getFromCache(cacheOf(op), arg)
       IN /\ pc' = [pc EXCEPT ![p] = IF c.exists THEN "done" ELSE "client"]
          /\ loc' = [loc EXCEPT ![p] = [NoLocals EXCEPT !.op = op, !.arg = arg,
                                                       !.hit = c.exists,
                                                       !.ret = c.value]]
    /\ UNCHANGED <<now, tMap, eMap, eList, caches, providerClient, enrich, h>>

\* the mutex the call running on goroutine p locks: the receiver d is a copy
\* of the keystone{} that Keystone() returns (38-44), its TokenRenewalMutex
\* is nil on entry, and line 165 makes a mutex for this call alone
TokenRenewalMutex(p) == [lock |-> "TokenRenewalMutex", of |-> p]

\* sync.Mutex.Lock can be taken when no other goroutine holds the mutex
CanLock(p, mutex) == \A q \in Procs \ {p} : mutex \notin loc[q].locks

\* defer d.TokenRenewalMutex.Unlock() (510), run when RefreshToken returns
RefreshUnlock_kept(p, locks) == locks
RefreshUnlock(p, locks) == locks \ {TokenRenewalMutex(p)}

\* keystoneClient, lines 164-167: the mutex is made and providerClient is
\* compared with nil
KeystoneClient(p) ==
    /\ pc[p] = "client"
    /\ pc' = [pc EXCEPT ![p] = IF providerClient.nil THEN "new_client" ELSE "identity"]
    /\ UNCHANGED <<now, tMap, eMap, eList, caches, providerClient, loc, enrich, h>>

\* lines 168-172: the client openstack.NewClient returns, which has no token
\* yet, is assigned to the package variable; the configured auth_url is taken
\* to be one that openstack.NewClient accepts
NewClient(p) ==
    /\ pc[p] = "new_client"
    /\ providerClient' = [nil |-> FALSE, TokenID |-> "", EndpointLocator |-> FALSE]
    /\ pc' = [pc EXCEPT ![p] = "lock"]
    /\ UNCHANGED <<now, tMap, eMap, eList, caches, loc, enrich, h>>

\* RefreshToken up to the request it sends (509-523): the mutex is locked,
\* TokenID is cleared, and either NewIdentityV3 fails and the call returns
\* through keystoneClient's error return (174-176), or tokens.Create is sent
RefreshTokenBegin(p) ==
    /\ pc[p] = "lock"
    /\ CanLock(p, TokenRenewalMutex(p))
    /\ providerClient' = [providerClient EXCEPT !.TokenID = ""]
    /\ \E ok \in BOOLEAN :
          IF ok
          THEN /\ pc' = [pc EXCEPT ![p] = "refresh"]
               /\ loc' = [loc EXCEPT ![p].auths = @ + 1, ![p].refreshed = TRUE,
                                     ![p].locks = @ \cup {TokenRenewalMutex(p)}]
          ELSE /\ pc' = [pc EXCEPT ![p] = "done"]
               /\ loc' = [loc EXCEPT ![p].ret = "", ![p].err = TRUE,
                                     ![p].refreshed = TRUE]
    /\ UNCHANGED <<now, tMap, eMap, eList, caches, enrich, h>>

\* RefreshToken from the answer to tokens.Create on (523-540), and the
\* error return of keystoneClient (174-176)
RefreshTokenReturn(p) ==
    /\ pc[p] = "refresh"
    /\ \E ok \in BOOLEAN :
          IF ok
          THEN /\ providerClient' = [providerClient EXCEPT !.TokenID = "svc",
                                                           !.EndpointLocator = TRUE]
               /\ pc' = [pc EXCEPT ![p] = "identity"]
               /\ loc' = [loc EXCEPT ![p].locks = RefreshUnlock(p, @)]
          ELSE /\ pc' = [pc EXCEPT ![p] = "done"]
               /\ loc' = [loc EXCEPT ![p].ret = "", ![p].err = TRUE,
                                     ![p].locks = RefreshUnlock(p, @)]
               /\ UNCHANGED providerClient
    /\ UNCHANGED <<now, tMap, eMap, eList, caches, enrich, h>>

\* openstack.NewIdentityV3 (179-181): an error returns from the call, else
\* the caller sends its request to the identity provider
NewIdentityV3(p) ==
    /\ pc[p] = "identity"
    /\ \E ok \in BOOLEAN :
          IF ok
          THEN /\ pc' = [pc EXCEPT ![p] = "call"]
               /\ loc' = [loc EXCEPT ![p].lookups = @ + 1,
                                     ![p].sentWith = providerClient.TokenID]
          ELSE Return(p, "", TRUE)
    /\ UNCHANGED <<now, tMap, eMap, eList, caches, providerClient, enrich, h>>

\* what a successful lookup of a name writes (e.g. 284-288, 340-345)
nameWrites(op, id, name) ==
    IF op = "UserName"
    THEN <<Write("userNameCache", id, name), Write("userIdCache", name, id)>>
    ELSE <<Write(cacheOf(op), id, name)>>

\* the answer to a single-entity GET (e.g. 276-288): a failed request, a
\* body that cannot be decoded, or the entity's name
NameReturn(p) ==
    /\ pc[p] = "call"
    /\ loc[p].op \in NameOps
    /\ \/ \E failed \in {"Get", "ExtractInto"} :
              Return(p, "", TRUE)
       \/ \E name \in NamesOf(loc[p].op) :
              /\ pc' = [pc EXCEPT ![p] = "update"]
              /\ loc' = [loc EXCEPT ![p].ret = name, ![p].err = FALSE,
                                    ![p].writes = nameWrites(loc[p].op, loc[p].arg, name)]
    /\ UNCHANGED <<now, tMap, eMap, eList, caches, providerClient, enrich, h>>

\* the switch of UserId (370-380): the id returned and whether err is set
userIdOf_last(users) ==
    [userId |-> IF Len(users) = 0 THEN "" ELSE users[Len(users)], err |-> Len(users) = 0]
userIdOf(users) ==
    [userId |-> IF Len(users) = 0 THEN "" ELSE users[1], err |-> Len(users) = 0]

\* the answer to the search of UserId (361-384)
UserIdReturn(p) ==
    /\ pc[p] = "call"
    /\ loc[p].op = "UserId"
    /\ \/ \E failed \in {"Get", "ExtractInto"} :
              Return(p, "", TRUE)
       \/ \E users \in UserLists :
              LET userId == userIdOf(users).userId
              IN /\ pc' = [pc EXCEPT ![p] = "update"]
                 /\ loc' = [loc EXCEPT ![p].ret = userId, ![p].err = userIdOf(users).err,
                                       ![p].found = Len(users),
                                       ![p].tok = [users |-> users],
                                       ![p].writes =
                                           <<Write("userIdCache", loc[p].arg, userId),
                                             Write("userNameCache", userId, loc[p].arg)>>]
    /\ UNCHANGED <<now, tMap, eMap, eList, caches, providerClient, enrich, h>>

\* one call of updateCache (51-55); the call returns after the last one
UpdateCache(p) ==
    /\ pc[p] = "update"
    /\ Len(loc[p].writes) > 0
    /\ LET w == Head(loc[p].writes)
       IN caches' = updateCache(caches, w.cache, w.key, w.value)
    /\ loc' = [loc EXCEPT ![p].writes = Tail(@)]
    /\ pc' = [pc EXCEPT ![p] = IF Len(loc[p].writes) = 1 THEN "done" ELSE "update"]
    /\ UNCHANGED <<now, tMap, eMap, eList, providerClient, enrich, h>>

\* ValidateToken (195-220) enters getCachedToken; prev keeps the result of
\* the call of ValidateToken this goroutine has just returned from, if any
ValidateTokenBegin(p, token) ==
    /\ Idle(p)
    /\ Len(eList) + Cardinality({q \in Procs : loc[q].op = "ValidateToken" /\ ~Idle(q)})
           < MaxList
    /\ pc' = [pc EXCEPT ![p] = "get_scan"]
    /\ loc' = [loc EXCEPT ![p] =
                  [NoLocals EXCEPT !.op = "ValidateToken", !.arg = token, !.now = now,
                                   !.prev = IF pc[p] = "done" /\ loc[p].op = "ValidateToken"
                                                /\ ~loc[p].err
                                            THEN [arg |-> loc[p].arg, ctx |-> loc[p].ctx,
                                                  exp |-> loc[p].tok.ExpiresAt]
                                            ELSE NoPrev]]
    /\ UNCHANGED <<now, tMap, eMap, eList, caches, providerClient, enrich, h>>

\* the end of getCachedToken and lines 196-199
ValidateTokenLookup(p) ==
    /\ pc[p] = "get_lookup"
    /\ loc[p].op = "ValidateToken"
    /\ LET cached == cachedToken(loc[p].arg)
       IN IF cached # NilToken
          THEN /\ pc' = [pc EXCEPT ![p] = "done"]
               /\ loc' = [loc EXCEPT ![p].hit = TRUE, ![p].tok = cached,
                                     ![p].token = cached, ![p].elemsToRemove = <<>>,
                                     ![p].ctx = ToContext(cached)]
          ELSE /\ pc' = [pc EXCEPT ![p] = "client"]
               /\ loc' = [loc EXCEPT ![p].elemsToRemove = <<>>]
    /\ UNCHANGED <<now, tMap, eMap, eList, caches, providerClient, enrich, h>>

\* the answer to tokens.Get (206-217)
ValidateTokenReturn(p) ==
    /\ pc[p] = "call"
    /\ loc[p].op = "ValidateToken"
    /\ \/ \E failed \in {"Get", "ExtractInto"} :
              Return(p, "", TRUE)
       \/ \E tokenData \in TokenRecords :
              /\ pc' = [pc EXCEPT ![p] = "add_token"]
              /\ loc' = [loc EXCEPT ![p].tok = tokenData]
    /\ UNCHANGED <<now, tMap, eMap, eList, caches, providerClient, enrich, h>>

\* updateCaches' call of addTokenToCache (223), and the context returned
\* once the name caches are written (219)
ValidateTokenAdd(p) ==
    /\ pc[p] = "add_token"
    /\ LET c == addTokenToCache(loc[p].arg, loc[p].tok)
       IN /\ tMap' = c.tMap
          /\ eMap' = c.eMap
          /\ eList' = c.eList
    /\ loc' = [loc EXCEPT ![p].writes = updateCaches(loc[p].tok),
                          ![p].ctx = ToContext(loc[p].tok)]
    /\ pc' = [pc EXCEPT ![p] = IF Len(updateCaches(loc[p].tok)) = 0 THEN "done" ELSE "update"]
    /\ UNCHANGED <<now, caches, providerClient, enrich, h>>

\* the steps every call that reaches the identity provider shares
ClientStep(p) ==
    \/ KeystoneClient(p)
    \/ NewClient(p)
    \/ RefreshTokenBegin(p)
    \/ RefreshTokenReturn(p)
    \/ NewIdentityV3(p)
    \/ UpdateCache(p)

NameStep(p, ops) ==
    \/ \E op \in ops : \E arg \in ArgsOf(op) : LookupBegin(p, op, arg)
    \/ NameReturn(p)

UserIdStep(p) ==
    \/ \E arg \in ArgsOf("UserId") : LookupBegin(p, "UserId", arg)
    \/ UserIdReturn(p)

ValidateStep(p) ==
    \/ \E token \in TokenIds : ValidateTokenBegin(p, token)
    \/ GetCachedTokenScan(p)
    \/ GetCachedTokenEvict(p)
    \/ ValidateTokenLookup(p)
    \/ ValidateTokenReturn(p)
    \/ ValidateTokenAdd(p)

\* one goroutine: names and ids looked up one after the other
LookupSeqNext == ClientStep(1) \/ NameStep(1, NameOps) \/ UserIdStep(1)
SpecLookupSeq == Init /\ [][LookupSeqNext]_vars

\* the goroutines look the names of users up concurrently, and ids by name
NamesNext == \E p \in Procs : ClientStep(p) \/ NameStep(p, {"UserName"}) \/ UserIdStep(p)
SpecNames == Init /\ [][NamesNext]_vars

\* one goroutine: tokens validated one after the other as time passes
ValidateSeqNext == Tick \/ ClientStep(1) \/ ValidateStep(1)
SpecValidateSeq == Init /\ [][ValidateSeqNext]_vars

\* one goroutine: tokens validated and names looked up one after the other
ValidateNamesNext == ClientStep(1) \/ ValidateStep(1) \/ NameStep(1, NameOps)
SpecValidateNames == Init /\ [][ValidateNamesNext]_vars

(***************************************************************************)
(* ToContext on its own, for token records with any of their parts empty.  *)
(***************************************************************************)
Things == {NoThing, Thing("d1", "Default"), Thing("d1", "")}
ScopedThings ==
    {ThingInDomain(id, name, dom) :
        id \in {"", "p1"}, name \in {"", "proj"}, dom \in Things}
RoleLists == {<<>>, <<Thing("r1", "admin")>>, <<Thing("r2", ""), Thing("r1", "admin")>>}
ContextTokens ==
    {keystoneToken(dom, proj, roles, ThingInDomain("u1", uname, udom), WellFormed(1)) :
        dom \in Things, proj \in ScopedThings, roles \in RoleLists,
        uname \in {"", "alice"}, udom \in {NoThing, Thing("d2", "Users")}}

ToContextCall(p, token) ==
    /\ Idle(p)
    /\ pc' = [pc EXCEPT ![p] = "done"]
    /\ loc' = [loc EXCEPT ![p] = [NoLocals EXCEPT !.op = "ToContext", !.tok = token,
                                                  !.ctx = ToContext(token)]]
    /\ UNCHANGED <<now, tMap, eMap, eList, caches, providerClient, enrich, h>>

ContextNext == \E token \in ContextTokens : ToContextCall(1, token)
SpecContext == Init /\ [][ContextNext]_vars

(***************************************************************************)
(* pkg/hermes/events.go: the filter translator.  Offset and Limit are Go    *)
(* uint: sums are taken modulo 2^UintBits.                                 *)
(***************************************************************************)
\* the width of uint in the model
UintBits == 8
UintMod == 2 ^ UintBits
Uints == 0..(UintMod - 1)
uintAdd(a, b) == (a + b) % UintMod

\* storage.Mock.MaxLimit
MaxLimit == 100
\* the default limit of storageFilter
DefaultLimit == 10

\* hermes.Filter (events.go, 65-76) and storage.Filter (interface.go, 39-50)
Filter(source, rtype, rname, uname, etype, time, offset, limit, sort) ==
    [Source |-> source, ResourceType |-> rtype, ResourceName |-> rname,
     UserName |-> uname, EventType |-> etype, Time |-> time,
     Offset |-> offset, Limit |-> limit, Sort |-> sort]
FieldOrder(field, order) == [Fieldname |-> field, Order |-> order]
NilFilter == [nil |-> TRUE]

\* copier.Copy between two structs or two slices of structs: the fields of
\* the same name are copied
copyStruct_kept(to, from) == to
copyStruct(to, from) == [k \in DOMAIN to |-> IF k \in DOMAIN from THEN from[k] ELSE to[k]]
\* copySort losing the direction of each field
copySort_fields(sort) ==
    [i \in 1..Len(sort) |-> FieldOrder(sort[i].Fieldname, "")]
copySort(sort) ==
    [i \in 1..Len(sort) |-> copyStruct(FieldOrder("", ""), sort[i])]

\* storageFilter checking the bound on the limit as the caller gave it
storageFilter_early(filter, keystoneDriver) ==
    LET limit == IF filter.Limit = 0 THEN DefaultLimit ELSE filter.Limit
    IN IF uintAdd(filter.Offset, filter.Limit) > MaxLimit
       THEN [filter |-> NilFilter, err |-> TRUE, limit |-> limit, calls |-> <<>>]
       ELSE [filter |-> [Source |-> filter.Source,
                         ResourceType |-> filter.ResourceType,
                         ResourceId |-> "",
                         UserId |-> IF filter.UserName # "" THEN filter.UserName ELSE "",
                         EventType |-> filter.EventType,
                         Time |-> filter.Time,
                         Offset |-> filter.Offset,
                         Limit |-> limit,
                         Sort |-> copySort(filter.Sort)],
             err |-> FALSE, limit |-> limit, calls |-> <<>>]

\* storageFilter (events.go, 96-135): the backend filter or nil, the error,
\* and the limit left in the caller's filter
storageFilter(filter, keystoneDriver) ==
    LET limit == IF filter.Limit = 0 THEN DefaultLimit ELSE filter.Limit
    IN IF uintAdd(filter.Offset, limit) > MaxLimit
       THEN [filter |-> NilFilter, err |-> TRUE, limit |-> limit, calls |-> <<>>]
       ELSE [filter |-> [Source |-> filter.Source,
                         ResourceType |-> filter.ResourceType,
                         ResourceId |-> "",
                         UserId |-> IF filter.UserName # "" THEN filter.UserName ELSE "",
                         EventType |-> filter.EventType,
                         Time |-> filter.Time,
                         Offset |-> filter.Offset,
                         Limit |-> limit,
                         Sort |-> copySort(filter.Sort)],
             err |-> FALSE, limit |-> limit, calls |-> <<>>]

(***************************************************************************)
(* The events the storage may return (storage.EventDetail, interface.go,   *)
(* 60-108).  event_type is kept as its segments and the dots between them. *)
(***************************************************************************)
Host == [Agent |-> "python-keystoneclient", Address |-> "100.65.0.11"]
Initiator(dom, domName, proj, projName, user, userName) ==
    [TypeURI |-> "service/security/account/user",
     DomainID |-> dom, DomainName |-> domName,
     ProjectID |-> proj, ProjectName |-> projName,
     UserID |-> user, UserName |-> userName,
     Host |-> Host, ID |-> "4a70"]
Target(type, id, name) == [TypeURI |-> type, ID |-> id, Name |-> name]
EventDetail(messageId, eventType, initiator, target) ==
    [PublisherID |-> "identity.keystone", EventType |-> eventType,
     Payload |-> [Observer |-> [TypeURI |-> "service/security", ID |-> "493f"],
                  Initiator |-> initiator, EventTime |-> "2017-05-02T12:02:46",
                  Action |-> "deleted.project", EventType |-> "activity",
                  ID |-> "d5ee", Outcome |-> "success",
                  Role |-> "", RoleName |-> "", Project |-> "", ProjectName |-> "",
                  User |-> "", UserName |-> "", Group |-> "", GroupName |-> "",
                  Target |-> target],
     MessageID |-> messageId]

\* an event like those of the mock, one whose record already carries names,
\* and one with a target that no lookup resolves
ProjectDeleted ==
    EventDetail("m1", <<"identity", ".", "project", ".", "deleted">>,
                Initiator("", "", "p1", "", "u1", ""),
                Target("data/security/project", "p2", ""))
UserUpdated ==
    EventDetail("m2", <<"identity", ".", "user", ".", "updated">>,
                Initiator("d1", "Stored domain", "", "", "u1", "Stored user"),
                Target("service/security/account/user", "u2", "Stored target"))
ServerCreated ==
    EventDetail("m3", <<"compute">>,
                Initiator("", "", "", "", "", ""),
                Target("compute/server", "s1", ""))
RoleAssigned ==
    [EventDetail("m4", <<"identity", ".", "role_assignment", ".", "created">>,
                 Initiator("d1", "", "p1", "", "u1", ""),
                 Target("data/security/project", "p1", "Stored project"))
        EXCEPT !.Payload.Role = "r1", !.Payload.Project = "p2",
               !.Payload.User = "u2", !.Payload.Group = "g1",
               !.Payload.RoleName = "Stored role"]
StoredEvents == {ProjectDeleted, UserUpdated, ServerCreated, RoleAssigned}
EventLists == {<<>>} \cup {<<e>> : e \in StoredEvents}
                 \cup {<<e, f>> : e \in StoredEvents, f \in StoredEvents}

\* the three events of mockEvents (mock.go, 76-181), which differ in
\* message_id, payload.id, eventTime and observer
mockListed(messageId, id, time) ==
    [EventDetail(messageId, <<"identity", ".", "project", ".", "deleted">>,
                 Initiator("", "", "ae63", "", "eb5c", ""),
                 Target("data/security/project", "b3b7", ""))
        EXCEPT !.Payload.ID = id, !.Payload.EventTime = time]
mockEvents ==
    <<mockListed("5a32", "d5ee", "2017-05-02T12:02:46"),
      mockListed("c3c6", "0950", "2017-05-02T11:45:49"),
      mockListed("0cd5", "dbd7", "2017-05-02T11:45:44")>>
\* Mock.GetEvents (mock.go, 10-20)
MockGetEvents(filter, tenantId) == [events |-> mockEvents, total |-> 24, err |-> FALSE]

\* what eventStore.GetEvents may answer: an error, or events and a total
StorageAnswers ==
    {[events |-> <<>>, total |-> 0, err |-> TRUE]}
        \cup {[events |-> l, total |-> 24, err |-> FALSE] : l \in EventLists}

(***************************************************************************)
(* The identity client as the query service sees it: a driver that fails   *)
(* the lookups in `failing` and resolves the others.                       *)
(***************************************************************************)
Drivers ==
    {[failing |-> f] : f \in {{}, {"DomainName"}, {"ProjectName"}, {"UserName"}, {"UserId"},
                              {"RoleName"}, {"GroupName"},
                              {"DomainName", "ProjectName", "UserName", "UserId"}}}
nameOfId(id) ==
    CASE id = "d1" -> "Default"
      [] id = "p1" -> "proj"
      [] id = "p2" -> "other proj"
      [] id = "u1" -> "alice"
      [] id = "u2" -> "bob"
      [] id = "r1" -> "admin"
      [] id = "g1" -> "ops"
      [] OTHER -> "unnamed"
idOfName(name) ==
    CASE name = "alice" -> "u1"
      [] name = "bob" -> "u2"
      [] OTHER -> ""
Call(op, arg) == [op |-> op, arg |-> arg]
driverName(driver, op, id) ==
    IF op \in driver.failing THEN [name |-> "", err |-> TRUE]
    ELSE [name |-> nameOfId(id), err |-> FALSE]

\* a read of a Go map of strings
at(m, k) == IF k \in DOMAIN m THEN m[k] ELSE ""

(***************************************************************************)
(* namesForIds (events.go, 210-280): the name map and the calls made.      *)
(***************************************************************************)
NameSteps ==
    <<Call("DomainName", "init_user_domain"), Call("ProjectName", "init_user_project"),
      Call("UserName", "init_user"), Call("ProjectName", "project"),
      Call("UserName", "user"), Call("GroupName", "group"), Call("RoleName", "role")>>

\* lookupNames giving up at the first lookup that fails
RECURSIVE lookupNames_stop(_, _, _, _)
lookupNames_stop(driver, idMap, steps, acc) ==
    IF Len(steps) = 0 THEN acc
    ELSE LET key == Head(steps).arg
             id == at(idMap, key)
             res == driverName(driver, Head(steps).op, id)
             next == [nameMap |-> MapPut(acc.nameMap, key, res.name),
                      calls |-> Append(acc.calls, Call(Head(steps).op, id))]
         IN IF id = "" THEN lookupNames_stop(driver, idMap, Tail(steps), acc)
            ELSE IF res.err THEN next
            ELSE lookupNames_stop(driver, idMap, Tail(steps), next)

RECURSIVE lookupNames(_, _, _, _)
lookupNames(driver, idMap, steps, acc) ==
    IF Len(steps) = 0 THEN acc
    ELSE LET key == Head(steps).arg
             id == at(idMap, key)
             next == IF id # ""
                     THEN [nameMap |-> MapPut(acc.nameMap, key,
                                              driverName(driver, Head(steps).op, id).name),
                           calls |-> Append(acc.calls, Call(Head(steps).op, id))]
                     ELSE acc
         IN lookupNames(driver, idMap, Tail(steps), next)

namesForIds(driver, idMap, targetType) ==
    LET ids == lookupNames(driver, idMap, NameSteps, [nameMap |-> EmptyMap, calls |-> <<>>])
    IN IF targetType = "data/security/project"
       THEN [nameMap |-> MapPut(ids.nameMap, "target",
                                driverName(driver, "ProjectName", at(idMap, "target")).name),
             calls |-> Append(ids.calls, Call("ProjectName", at(idMap, "target")))]
       ELSE ids

(***************************************************************************)
(* eventsList (events.go, 138-171).                                        *)
(***************************************************************************)
NoInitiator == Initiator("", "", "", "", "", "")
\* strings.SplitN(s, ".", 2)[0]: what stands before the first dot
RECURSIVE splitFirst(_)
splitFirst(str) ==
    IF str = <<>> \/ Head(str) = "." THEN <<>> ELSE <<Head(str)>> \o splitFirst(Tail(str))
ListEvent(e) ==
    [Source |-> splitFirst(e.EventType), ID |-> e.MessageID, Type |-> e.EventType,
     Time |-> e.Payload.EventTime, ResourceName |-> "",
     ResourceId |-> e.Payload.Target.ID, ResourceType |-> e.Payload.Target.TypeURI,
     Initiator |-> copyStruct([NoInitiator EXCEPT !.TypeURI = "", !.ID = "",
                                                  !.Host = [Agent |-> "", Address |-> ""]],
                              e.Payload.Initiator)]

listEventNames(driver, event) ==
    namesForIds(driver,
                [init_user_domain |-> event.Initiator.DomainID,
                 init_user_project |-> event.Initiator.ProjectID,
                 init_user |-> event.Initiator.UserID,
                 target |-> event.ResourceId],
                event.ResourceType)

\* one turn of the loop: the list item and the identity-client calls made
listEvent(storageEvent, driver, flag) ==
    LET event == ListEvent(storageEvent)
        names == listEventNames(driver, event)
    IN IF flag
       THEN [event |-> [event EXCEPT !.Initiator.DomainName = at(names.nameMap, "init_user_domain"),
                                     !.Initiator.ProjectName = at(names.nameMap, "init_user_project"),
                                     !.Initiator.UserName = at(names.nameMap, "init_user"),
                                     !.ResourceName = at(names.nameMap, "target")],
             calls |-> names.calls]
       ELSE [event |-> event, calls |-> <<>>]

\* eventsList putting each event before those already listed
RECURSIVE eventsList_rev(_, _, _)
eventsList_rev(eventDetails, driver, flag) ==
    IF Len(eventDetails) = 0 THEN [events |-> <<>>, calls |-> <<>>]
    ELSE LET first == listEvent(Head(eventDetails), driver, flag)
             rest == eventsList_rev(Tail(eventDetails), driver, flag)
         IN [events |-> rest.events \o <<first.event>>, calls |-> first.calls \o rest.calls]

RECURSIVE eventsList(_, _, _)
eventsList(eventDetails, driver, flag) ==
    IF Len(eventDetails) = 0 THEN [events |-> <<>>, calls |-> <<>>]
    ELSE LET first == listEvent(Head(eventDetails), driver, flag)
             rest == eventsList(Tail(eventDetails), driver, flag)
         IN [events |-> <<first.event>> \o rest.events, calls |-> first.calls \o rest.calls]

(***************************************************************************)
(* hermes.GetEvents (events.go, 79-94): what it returns, and the calls of  *)
(* storage.GetEvents and of the identity client it makes.                  *)
(***************************************************************************)
\* GetEvents giving the number of events of the page as the total
GetEvents_counted(filter, tenantId, keystoneDriver, answer) ==
    LET sf == storageFilter(filter, keystoneDriver)
        list == eventsList(answer.events, keystoneDriver, enrich)
    IN IF sf.err \/ answer.err
       THEN [events |-> <<>>, total |-> 0, err |-> TRUE, sf |-> sf,
             storageCalls |-> IF sf.err THEN <<>> ELSE <<Call("GetEvents", tenantId)>>,
             idCalls |-> sf.calls]
       ELSE [events |-> list.events, total |-> Len(list.events), err |-> FALSE, sf |-> sf,
             storageCalls |-> <<Call("GetEvents", tenantId)>>,
             idCalls |-> sf.calls \o list.calls]

\* GetEvents without the early return on a rejected filter
GetEvents_unchecked(filter, tenantId, keystoneDriver, answer) ==
    LET sf == storageFilter(filter, keystoneDriver)
        list == eventsList(answer.events, keystoneDriver, enrich)
    IN IF answer.err
       THEN [events |-> <<>>, total |-> 0, err |-> TRUE, sf |-> sf,
             storageCalls |-> <<Call("GetEvents", tenantId)>>, idCalls |-> sf.calls]
       ELSE [events |-> list.events, total |-> answer.total, err |-> sf.err, sf |-> sf,
             storageCalls |-> <<Call("GetEvents", tenantId)>>,
             idCalls |-> sf.calls \o list.calls]

GetEvents(filter, tenantId, keystoneDriver, answer) ==
    LET sf == storageFilter(filter, keystoneDriver)
        list == eventsList(answer.events, keystoneDriver, enrich)
    IN IF sf.err
       THEN [events |-> <<>>, total |-> 0, err |-> TRUE, sf |-> sf,
             storageCalls |-> <<>>, idCalls |-> sf.calls]
       ELSE IF answer.err
       THEN [events |-> <<>>, total |-> 0, err |-> TRUE, sf |-> sf,
             storageCalls |-> <<Call("GetEvents", tenantId)>>, idCalls |-> sf.calls]
       ELSE [events |-> list.events, total |-> answer.total, err |-> FALSE, sf |-> sf,
             storageCalls |-> <<Call("GetEvents", tenantId)>>,
             idCalls |-> sf.calls \o list.calls]

(***************************************************************************)
(* hermes.GetEvent (events.go, 174-201): the event and the error of the    *)
(* storage, the event with the names of the name map when the flag is on.  *)
(***************************************************************************)
NilEvent == [nil |-> TRUE]
\* what eventStore.GetEvent may answer: an event or nil, with or without error
DetailAnswers ==
    {[event |-> e, err |-> err] : e \in StoredEvents \cup {NilEvent}, err \in BOOLEAN}

eventNames(driver, event) ==
    namesForIds(driver,
                [init_user_domain |-> event.Payload.Initiator.DomainID,
                 init_user_project |-> event.Payload.Initiator.ProjectID,
                 init_user |-> event.Payload.Initiator.UserID,
                 target |-> event.Payload.Target.ID,
                 project |-> event.Payload.Project,
                 user |-> event.Payload.User,
                 group |-> event.Payload.Group,
                 role |-> event.Payload.Role],
                event.Payload.Target.TypeURI)

\* GetEvent dropping the error of the storage once it has an event
GetEvent_noerr(eventID, tenantId, keystoneDriver, answer) ==
    [event |-> answer.event, err |-> answer.err /\ answer.event = NilEvent,
     storageCalls |-> <<Call("GetEvent", eventID)>>, idCalls |-> <<>>]

GetEvent(eventID, tenantId, keystoneDriver, answer) ==
    LET event == answer.event
        names == eventNames(keystoneDriver, event)
        nameMap == names.nameMap
    IN IF enrich /\ event # NilEvent
       THEN [event |-> [event EXCEPT
                           !.Payload.Initiator.DomainName = at(nameMap, "init_user_domain"),
                           !.Payload.Initiator.ProjectName = at(nameMap, "init_user_project"),
                           !.Payload.Initiator.UserName = at(nameMap, "init_user"),
                           !.Payload.Target.Name = at(nameMap, "target"),
                           !.Payload.ProjectName = at(nameMap, "project"),
                           !.Payload.UserName = at(nameMap, "user"),
                           !.Payload.GroupName = at(nameMap, "group"),
                           !.Payload.RoleName = at(nameMap, "role")],
             err |-> answer.err,
             storageCalls |-> <<Call("GetEvent", eventID)>>, idCalls |-> names.calls]
       ELSE [event |-> event, err |-> answer.err,
             storageCalls |-> <<Call("GetEvent", eventID)>>, idCalls |-> <<>>]

(***************************************************************************)
(* The hermes package of src/unnamed/part_002: GetEvents and GetEvent      *)
(* without the flag and without the filter translator.  Its storage hands  *)
(* out list items (data.Event) and takes the caller's filter.              *)
(***************************************************************************)
dataEvent(e) == [ListEvent(e) EXCEPT !.ResourceName = e.Payload.Target.Name]
RECURSIVE dataEvents(_)
dataEvents(records) ==
    IF Len(records) = 0 THEN <<>> ELSE <<dataEvent(Head(records))>> \o dataEvents(Tail(records))
\* what its eventStore.GetEvents may answer
StorageAnswers_part002 ==
    {[events |-> dataEvents(l), total |-> 24, err |-> err] : l \in EventLists, err \in BOOLEAN}

NameSteps_part002 ==
    <<Call("DomainName", "domain"), Call("ProjectName", "project"), Call("UserName", "user")>>

\* namesForIds (part_002, 78-121)
namesForIds_part002(driver, idMap, targetType) ==
    LET ids == lookupNames(driver, idMap, NameSteps_part002, [nameMap |-> EmptyMap, calls |-> <<>>])
        target == at(idMap, "target")
    IN CASE targetType = "data/security/project" ->
              [nameMap |-> MapPut(ids.nameMap, "target", driverName(driver, "ProjectName", target).name),
               calls |-> Append(ids.calls, Call("ProjectName", target))]
         [] targetType = "service/security/account/user" ->
              [nameMap |-> MapPut(ids.nameMap, "target", driverName(driver, "UserName", target).name),
               calls |-> Append(ids.calls, Call("UserName", target))]
         [] OTHER -> ids

\* one turn of the loop of GetEvents (part_002, 41-53)
namedEvent_part002(event, driver) ==
    LET names == namesForIds_part002(driver,
                     [domain |-> event.Initiator.DomainID, project |-> event.Initiator.ProjectID,
                      user |-> event.Initiator.UserID, target |-> event.ResourceId],
                     event.ResourceType)
    IN [event |-> [event EXCEPT !.Initiator.DomainName = at(names.nameMap, "domain"),
                                !.Initiator.ProjectName = at(names.nameMap, "project"),
                                !.Initiator.UserName = at(names.nameMap, "user"),
                                !.ResourceName = at(names.nameMap, "target")],
        calls |-> names.calls]

RECURSIVE namedEvents_part002(_, _)
namedEvents_part002(events, driver) ==
    IF Len(events) = 0 THEN [events |-> <<>>, calls |-> <<>>]
    ELSE LET first == namedEvent_part002(Head(events), driver)
             rest == namedEvents_part002(Tail(events), driver)
         IN [events |-> <<first.event>> \o rest.events, calls |-> first.calls \o rest.calls]

\* GetEvents (part_002, 31-56)
GetEvents_part002(filter, tenantId, keystoneDriver, answer) ==
    LET limit == IF filter.Limit = 0 THEN DefaultLimit ELSE filter.Limit
        named == namedEvents_part002(answer.events, keystoneDriver)
    IN [events |-> named.events, total |-> answer.total, err |-> answer.err,
        filter |-> [filter EXCEPT !.Limit = limit],
        storageCalls |-> <<Call("GetEvents", tenantId)>>, idCalls |-> named.calls]

\* GetEvent (part_002, 58-76)
GetEvent_part002(eventID, tenantId, keystoneDriver, answer) ==
    LET event == answer.event
        names == namesForIds_part002(keystoneDriver,
                     [domain |-> event.Payload.Initiator.DomainID,
                      project |-> event.Payload.Initiator.ProjectID,
                      user |-> event.Payload.Initiator.UserID,
                      target |-> event.Payload.Target.ID],
                     event.Payload.Target.TypeURI)
    IN IF event # NilEvent
       THEN [event |-> [event EXCEPT
                           !.Payload.Initiator.DomainName = at(names.nameMap, "domain"),
                           !.Payload.Initiator.ProjectName = at(names.nameMap, "project"),
                           !.Payload.Initiator.UserName = at(names.nameMap, "user"),
                           !.Payload.Target.Name = at(names.nameMap, "target")],
             err |-> answer.err,
             storageCalls |-> <<Call("GetEvent", eventID)>>, idCalls |-> names.calls]
       ELSE [event |-> event, err |-> answer.err,
             storageCalls |-> <<Call("GetEvent", eventID)>>, idCalls |-> <<>>]

(***************************************************************************)
(* The requests of the query service.  A request runs to its end in one    *)
(* step: it shares nothing with the requests beside it but the identity    *)
(* client, which it sees as a driver; a behaviour follows one request.     *)
(***************************************************************************)
NoSort == <<>>
TimeDesc == <<FieldOrder("time", "desc"), FieldOrder("event_type", "asc")>>
NoTime == EmptyMap

\* the filters of the requests: some offsets and limits around the maximum,
\* with and without names
PageFilters ==
    {Filter("", rtype, rname, uname, "", NoTime, offset, limit, sort) :
        rtype \in {"", "data/security/project"}, rname \in {"", "proj"},
        uname \in {"", "alice", "nobody"},
        offset \in {0, 80}, limit \in {0, 20, 50}, sort \in {NoSort, TimeDesc}}
\* every offset and every limit
RangeFilters ==
    {Filter("", "", "", "", "", NoTime, offset, limit, NoSort) :
        offset \in Uints, limit \in Uints}

\* filters with the fields that are copied as they are
FieldFilters ==
    {Filter(source, rtype, "", "", etype, time, 5, limit, sort) :
        source \in {"", "identity"}, rtype \in {"", "data/security/project"},
        etype \in {"", "identity.project.deleted"},
        time \in {NoTime, [gte |-> "2017-05-01", lt |-> "2017-06-01"]},
        limit \in {0, 20}, sort \in {NoSort, TimeDesc, <<FieldOrder("time", "asc")>>}}

StorageFilterCall ==
    /\ h = NoCall
    /\ \E filter \in RangeFilters \cup PageFilters \cup FieldFilters, driver \in Drivers :
           h' = [op |-> "storageFilter", filter |-> filter, driver |-> driver,
                 sf |-> storageFilter(filter, driver)]
    /\ UNCHANGED <<now, tMap, eMap, eList, caches, providerClient, pc, loc, enrich>>

TenantIds == {"", "p1"}

\* the storage is the mock or one that answers anything
GetEventsCall ==
    /\ h = NoCall
    /\ \E filter \in PageFilters, tenantId \in TenantIds, driver \in Drivers :
         \E answer \in StorageAnswers
                          \cup {MockGetEvents(storageFilter(filter, driver).filter, tenantId)} :
           LET ret == GetEvents(filter, tenantId, driver, answer)
           IN h' = [op |-> "GetEvents", filter |-> filter, tenantId |-> tenantId,
                    driver |-> driver, answer |-> answer, sf |-> ret.sf, ret |-> ret]
    /\ UNCHANGED <<now, tMap, eMap, eList, caches, providerClient, pc, loc, enrich>>

\* the mocks of the tests: the storage answers its fixed event (mock.go,
\* 22-27), the identity client resolves every id
MockEvent == [event |-> ProjectDeleted, err |-> FALSE]
MockIdentity == [failing |-> {}]

GetEventCall ==
    /\ h = NoCall
    /\ \E eventID \in {"d5ee"}, driver \in Drivers, answer \in DetailAnswers :
           h' = [op |-> "GetEvent", eventID |-> eventID, driver |-> driver,
                 answer |-> answer, ret |-> GetEvent(eventID, "p1", driver, answer)]
    /\ UNCHANGED <<now, tMap, eMap, eList, caches, providerClient, pc, loc, enrich>>

\* the filters handed to the GetEvents of part_002
Filters_part002 ==
    {Filter("", "", "", "", "", NoTime, 0, limit, NoSort) : limit \in {0, 20}}

GetEventsCall_part002 ==
    /\ h = NoCall
    /\ \E filter \in Filters_part002, driver \in Drivers, answer \in StorageAnswers_part002 :
           h' = [op |-> "GetEvents_part002", filter |-> filter, driver |-> driver,
                 answer |-> answer, ret |-> GetEvents_part002(filter, "p1", driver, answer)]
    /\ UNCHANGED <<now, tMap, eMap, eList, caches, providerClient, pc, loc, enrich>>

GetEventCall_part002 ==
    /\ h = NoCall
    /\ \E eventID \in {"d5ee"}, driver \in Drivers, answer \in DetailAnswers :
           h' = [op |-> "GetEvent_part002", eventID |-> eventID, driver |-> driver,
                 answer |-> answer, ret |-> GetEvent_part002(eventID, "p1", driver, answer)]
    /\ UNCHANGED <<now, tMap, eMap, eList, caches, providerClient, pc, loc, enrich>>

\* the flag is read from the configuration, which is loaded at start
InitHermes ==
    /\ now = 0
    /\ tMap = EmptyMap
    /\ eMap = EmptyMap
    /\ eList = <<>>
    /\ caches = NoCaches
    /\ providerClient = NoClient
    /\ pc = [p \in Procs |-> "idle"]
    /\ loc = [p \in Procs |-> NoLocals]
    /\ enrich \in BOOLEAN
    /\ h = NoCall

HermesNext ==
    \/ StorageFilterCall \/ GetEventsCall \/ GetEventCall
    \/ GetEventsCall_part002 \/ GetEventCall_part002
SpecHermes == InitHermes /\ [][HermesNext]_vars

(***************************************************************************)
(* C1.  A get performed at time now never returns a token whose            *)
(* expires_at is <= now: after any sequence of inserts and gets, a         *)
(* completed getCachedToken returned nil or a token that expires after the *)
(* instant the get sampled.                                                *)
(***************************************************************************)
GetReturned(p) == pc[p] = "done" /\ loc[p].op = "getCachedToken"
\* C1: a get that returns a token returns one that expires after the `now` it sampled
C1_NoExpiredTokenReturned ==
    \A p \in Procs :
        GetReturned(p) /\ loc[p].token # NilToken
            => ParseTime(loc[p].token.ExpiresAt).t > loc[p].now

(***************************************************************************)
(* C2.  N >= 2 concurrent UserName(id) calls on a cold name cache, with no *)
(* put in between, issue at most one identity-provider lookup for the id   *)
(* in total, and every caller observes the same name.  As stated: no two   *)
(* goroutines have a lookup of the same id in flight together, and two     *)
(* callers that both missed the cache and succeeded return the same name.  *)
(***************************************************************************)
InUserName(p, id) == loc[p].op = "UserName" /\ loc[p].arg = id
\* C2: one lookup of an id at a time, and the same name to every caller
C2_OneLookupSameName ==
    \A p, q \in Procs : \A id \in ArgsOf("UserName") :
        p # q /\ InUserName(p, id) /\ InUserName(q, id) =>
            /\ ~(pc[p] = "call" /\ pc[q] = "call")
            /\ (pc[p] = "done" /\ pc[q] = "done" /\ ~loc[p].hit /\ ~loc[q].hit
                    /\ ~loc[p].err /\ ~loc[q].err
                  => loc[p].ret = loc[q].ret)

(***************************************************************************)
(* C5.  ValidateToken(T) on a cold token cache issues exactly one          *)
(* identity-provider call; once it has succeeded, a second ValidateToken(T)*)
(* made before T expires, with nothing in between, issues none and returns *)
(* the same AuthContext.                                                   *)
(***************************************************************************)
Validated(p) == pc[p] = "done" /\ loc[p].op = "ValidateToken" /\ ~loc[p].err
SecondValidate(p) ==
    /\ Validated(p)
    /\ loc[p].prev.arg = loc[p].arg
    /\ loc[p].prev.exp.wf
    /\ loc[p].prev.exp.at > loc[p].now
C5_SecondCallCached(p) ==
    SecondValidate(p) =>
        /\ loc[p].hit
        /\ loc[p].lookups + loc[p].auths = 0
        /\ loc[p].ctx = loc[p].prev.ctx
Pair(cache, thing) ==
    IF thing.ID # "" /\ thing.Name # "" THEN {Write(cache, thing.ID, thing.Name)} ELSE {}
TokenPairs(t) ==
    Pair("userNameCache", t.User) \cup Pair("domainNameCache", t.User.Domain)
        \cup Pair("projectNameCache", t.ProjectScope)
        \cup Pair("domainNameCache", t.ProjectScope.Domain)
        \cup Pair("domainNameCache", t.DomainScope)
        \cup UNION {Pair("roleNameCache", t.Roles[i]) : i \in 1..Len(t.Roles)}
IsCached(w) == w.key \in DOMAIN caches[w.cache] /\ caches[w.cache][w.key] = w.value
\* C6: after a successful ValidateToken every pair of the token record is cached
C6_TokenPairsCached ==
    \A p \in Procs :
        Validated(p) /\ ~loc[p].hit => \A w \in TokenPairs(loc[p].tok) : IsCached(w)

(***************************************************************************)
(* C10.  UserId(name) on a cache miss: a search that finds no user returns *)
(* an empty id and an error; one that finds exactly one user returns that  *)
(* user's id and no error; one that finds more returns the first user's id *)
(* and no error.                                                           *)
(***************************************************************************)
Searched(p) == pc[p] = "done" /\ loc[p].op = "UserId" /\ loc[p].tok # NilToken
\* C10: what UserId returns for no user, one user and several users
C10_UserIdResult ==
    \A p \in Procs :
        Searched(p) =>
            LET users == loc[p].tok.users
            IN /\ ~loc[p].hit
               /\ (Len(users) = 0 => loc[p].ret = "" /\ loc[p].err)
               /\ (Len(users) >= 1 => loc[p].ret = users[1] /\ ~loc[p].err)
\* a search that found two users has returned
C10_Witness == \E p \in Procs : Searched(p) /\ Len(loc[p].tok.users) = 2 /\ ~loc[p].err

(***************************************************************************)
(* C3.  Whenever the filter translator returns a backend filter, offset    *)
(* plus limit of that filter, as mathematical integers, is at most         *)
(* MaxLimit, for all offsets and limits of the unsigned type, those whose  *)
(* sum wraps around included; every other filter is rejected.              *)
(***************************************************************************)
Translated == h.op \in {"storageFilter", "GetEvents"}
\* C3: a translated filter has offset + limit <= MaxLimit
C3_OffsetPlusLimitWithinMax ==
    Translated =>
        /\ ~h.sf.err => h.sf.filter.Offset + h.sf.filter.Limit <= MaxLimit
        /\ h.sf.err <=> h.sf.filter = NilFilter

(***************************************************************************)
(* C4.  When the filter translator rejects the filter, hermes.GetEvents    *)
(* returns an error and no events, and storage.GetEvents is not called in  *)
(* that request.                                                           *)
(***************************************************************************)
Rejected == h.op = "GetEvents" /\ h.sf.err
\* C4: a rejected filter ends GetEvents before storage.GetEvents
C4_RejectedBeforeStorage ==
    Rejected => /\ h.ret.err
                /\ h.ret.events = <<>>
                /\ h.ret.total = 0
                /\ h.ret.storageCalls = <<>>
\* offset 80 and limit 50 against a storage that had events to give
C4_Witness ==
    /\ Rejected
    /\ h.filter.Offset = 80 /\ h.filter.Limit = 50
    /\ ~h.answer.err /\ Len(h.answer.events) > 0

(***************************************************************************)
(* C7.  For a filter with a user name: if the identity client resolves the *)
(* name to a user id, the backend filter has that user id; the name is     *)
(* passed through as the user id only if the resolution fails.             *)
(***************************************************************************)
Resolves(driver, name) == "UserId" \notin driver.failing /\ idOfName(name) # ""
\* C7: user_name is resolved to the user id
C7_UserNameResolved ==
    (Translated /\ ~h.sf.err /\ h.filter.UserName # "") =>
        IF Resolves(h.driver, h.filter.UserName)
        THEN h.sf.filter.UserId = idOfName(h.filter.UserName)
        ELSE h.sf.filter.UserId = h.filter.UserName

(***************************************************************************)
(* C8.  For a filter with a resource name and no resource type, the        *)
(* translation and hermes.GetEvents fail, and neither the identity client  *)
(* nor storage.GetEvents is called.                                        *)
(***************************************************************************)
NameWithoutType == h.filter.ResourceName # "" /\ h.filter.ResourceType = ""
\* C8: resource_name without resource_type is rejected
C8_ResourceNameNeedsType ==
    /\ (Translated /\ NameWithoutType) => h.sf.err /\ h.sf.calls = <<>>
    /\ (h.op = "GetEvents" /\ NameWithoutType) =>
           h.ret.err /\ h.ret.idCalls = <<>> /\ h.ret.storageCalls = <<>>

(***************************************************************************)
(* C9.  With the enrichment flag off, hermes.GetEvents calls no operation  *)
(* of the identity client, whatever the filter and the events of the       *)
(* storage, and the name fields of each event of the response are those of *)
(* the backend record.                                                     *)
(***************************************************************************)
BackendNames(event, record) ==
    /\ event.Initiator.DomainName = record.Payload.Initiator.DomainName
    /\ event.Initiator.ProjectName = record.Payload.Initiator.ProjectName
    /\ event.Initiator.UserName = record.Payload.Initiator.UserName
    /\ event.ResourceName = record.Payload.Target.Name
\* C9: flag off, no identity-client call, names as in the backend record
C9_NoIdentityCallsFlagOff ==
    (h.op = "GetEvents" /\ ~enrich) =>
        /\ h.ret.idCalls = <<>>
        /\ ~h.ret.err =>
              /\ Len(h.ret.events) = Len(h.answer.events)
              /\ \A i \in 1..Len(h.ret.events) :
                     BackendNames(h.ret.events[i], h.answer.events[i])

(***************************************************************************)
(* C11.  Within one process lifetime any two successful resolutions of an  *)
(* id return the same name, whatever the interleaving of name lookups and  *)
(* ValidateToken calls.  A resolution returns the name the cache holds for *)
(* the id, or the name it then puts there; so, on the name caches: once an *)
(* id has a name, no write gives it another.                               *)
(***************************************************************************)
NameCaches ==
    {"domainNameCache", "projectNameCache", "userNameCache", "roleNameCache", "groupNameCache"}
NameKept(c, id) == id \in DOMAIN caches'[c] /\ caches'[c][id] = caches[c][id]
\* C11: the name an id resolves to never changes
C11_SameNameForId ==
    [][\A c \in NameCaches : \A id \in DOMAIN caches[c] : NameKept(c, id)]_vars

(***************************************************************************)
(* C12.  With the enrichment flag on, a name lookup that fails never fails *)
(* hermes.GetEvents or hermes.GetEvent: every event of the storage is      *)
(* returned with a nil error, the name whose lookup failed is empty, and   *)
(* the other lookups of the event are made all the same.                   *)
(***************************************************************************)
NonEmptyArg(call) == call.arg # ""
\* the lookups an event asks for, whatever their outcome
TargetLookup(type, id) ==
    IF type = "data/security/project" THEN <<Call("ProjectName", id)>> ELSE <<>>
InitiatorLookups(i) ==
    SelectSeq(<<Call("DomainName", i.DomainID), Call("ProjectName", i.ProjectID),
                Call("UserName", i.UserID)>>, NonEmptyArg)
PayloadLookups(p) ==
    SelectSeq(<<Call("ProjectName", p.Project), Call("UserName", p.User),
                Call("GroupName", p.Group), Call("RoleName", p.Role)>>, NonEmptyArg)
RECURSIVE ListLookups(_)
ListLookups(records) ==
    IF Len(records) = 0 THEN <<>>
    ELSE InitiatorLookups(Head(records).Payload.Initiator)
           \o TargetLookup(Head(records).Payload.Target.TypeURI, Head(records).Payload.Target.ID)
           \o ListLookups(Tail(records))
\* the name of a lookup: empty when the lookup fails or there is no id
Looked(driver, op, id) ==
    IF id = "" \/ op \in driver.failing THEN "" ELSE nameOfId(id)
InitiatorLooked(driver, i, record) ==
    /\ i.DomainName = Looked(driver, "DomainName", record.Payload.Initiator.DomainID)
    /\ i.ProjectName = Looked(driver, "ProjectName", record.Payload.Initiator.ProjectID)
    /\ i.UserName = Looked(driver, "UserName", record.Payload.Initiator.UserID)
EnrichedList == h.op = "GetEvents" /\ enrich /\ ~h.sf.err /\ ~h.answer.err
EnrichedDetail == h.op = "GetEvent" /\ enrich /\ h.answer.event # NilEvent
\* C12: a failed name lookup leaves the name empty and the request whole
C12_LookupErrorsTolerated ==
    /\ EnrichedList =>
          /\ ~h.ret.err
          /\ Len(h.ret.events) = Len(h.answer.events)
          /\ h.ret.idCalls = ListLookups(h.answer.events)
          /\ \A i \in 1..Len(h.ret.events) :
                 InitiatorLooked(h.driver, h.ret.events[i].Initiator, h.answer.events[i])
    /\ EnrichedDetail =>
          /\ h.ret.err = h.answer.err
          /\ h.ret.event # NilEvent
          /\ h.ret.idCalls = InitiatorLookups(h.answer.event.Payload.Initiator)
                               \o PayloadLookups(h.answer.event.Payload)
                               \o TargetLookup(h.answer.event.Payload.Target.TypeURI,
                                               h.answer.event.Payload.Target.ID)
          /\ InitiatorLooked(h.driver, h.ret.event.Payload.Initiator, h.answer.event)
          /\ h.ret.event.Payload.RoleName = Looked(h.driver, "RoleName", h.answer.event.Payload.Role)
          /\ h.ret.event.Payload.GroupName = Looked(h.driver, "GroupName", h.answer.event.Payload.Group)
          /\ h.ret.event.Payload.ProjectName = Looked(h.driver, "ProjectName", h.answer.event.Payload.Project)
          /\ h.ret.event.Payload.UserName = Looked(h.driver, "UserName", h.answer.event.Payload.User)
\* the project lookup of the initiator failed, the user lookup after it was
\* made and gave the name
C12_Witness ==
    /\ EnrichedList
    /\ h.driver.failing = {"ProjectName"}
    /\ h.answer.events = <<ProjectDeleted>>
    /\ h.ret.events[1].Initiator.ProjectName = ""
    /\ h.ret.events[1].Initiator.UserName = "alice"
    /\ ~h.ret.err

(***************************************************************************)
(* C13.  Whenever storage.GetEvents or storage.GetEvent returns an error,  *)
(* hermes.GetEvents or hermes.GetEvent returns the error to its caller,    *)
(* with the enrichment flag on or off.                                     *)
(***************************************************************************)
StorageCalled == h.op \in {"GetEvents", "GetEvent", "GetEvents_part002", "GetEvent_part002"}
                    /\ h.ret.storageCalls # <<>>
\* C13: an error of the storage is the error of the request
C13_StorageErrorReturned ==
    (StorageCalled /\ h.answer.err) => h.ret.err
\* GetEvent with the flag on, and a storage that gave an event with its error
C13_Witness ==
    /\ h.op = "GetEvent" /\ enrich
    /\ h.answer.err /\ h.answer.event # NilEvent
    /\ h.ret.err /\ h.ret.idCalls # <<>>

(***************************************************************************)
(* C14.  hermes.GetEvent with the mock identity and the mock storage, as   *)
(* the test calls it with no configuration set, returns a nil error and an *)
(* event whose payload.id is the requested id and whose                    *)
(* payload.target.name is not empty; and for every event whose target is a *)
(* data/security/project, GetEvent returns payload.target.name equal to    *)
(* ProjectName(target.id) of the identity client.                          *)
(***************************************************************************)
DetailCall == h.op \in {"GetEvent", "GetEvent_part002"}
TestCall == DetailCall /\ ~enrich /\ h.driver = MockIdentity /\ h.answer = MockEvent
ProjectTarget(event) == event # NilEvent /\ event.Payload.Target.TypeURI = "data/security/project"
\* C14: the target name of a project target is the project's name
C14_TargetNameFromIdentity ==
    /\ TestCall =>
          /\ ~h.ret.err
          /\ h.ret.event # NilEvent
          /\ h.ret.event.Payload.ID = h.eventID
          /\ h.ret.event.Payload.Target.Name # ""
    /\ (DetailCall /\ ProjectTarget(h.answer.event)) =>
          h.ret.event.Payload.Target.Name
              = driverName(h.driver, "ProjectName", h.answer.event.Payload.Target.ID).name

(***************************************************************************)
(* C15.  For every filter the translator accepts and every tenant id,      *)
(* hermes.GetEvents against the mock storage returns exactly 3 events and  *)
(* total = 24, with pairwise distinct, non-empty event ids; the result     *)
(* does not depend on the filter or the tenant id.                         *)
(***************************************************************************)
MockCall == h.op = "GetEvents" /\ ~h.sf.err /\ h.answer = MockGetEvents(h.sf.filter, h.tenantId)
\* C15: three events and a total of 24 from the mock storage
C15_MockPage ==
    MockCall =>
        /\ ~h.ret.err
        /\ Len(h.ret.events) = 3
        /\ h.ret.total = 24
        /\ h.ret.total >= Len(h.ret.events)
        /\ <<h.ret.events[1].ID, h.ret.events[2].ID, h.ret.events[3].ID>> = <<"5a32", "c3c6", "0cd5">>
        /\ \A i, j \in 1..3 : h.ret.events[i].ID # "" /\ (i # j => h.ret.events[i].ID # h.ret.events[j].ID)
\* a filter with names, an offset and a sort, and the empty tenant id
C15_Witness ==
    /\ MockCall
    /\ h.tenantId = "" /\ h.filter.UserName = "alice" /\ h.filter.Offset = 80
    /\ h.filter.Sort = TimeDesc
    /\ Len(h.ret.events) = 3

(***************************************************************************)
(* C16.  For every list of events of storage.GetEvents, hermes.GetEvents   *)
(* returns one list item per event in the same order, and in each of them  *)
(* event_id is the event's message_id, source the first dotted segment of  *)
(* event_type, resource_id payload.target.id and resource_type             *)
(* payload.target.typeURI, with the enrichment flag on or off.             *)
(***************************************************************************)
FirstSegment(seg, str) ==
    /\ "." \notin Range(seg)
    /\ \/ seg = str
       \/ Len(str) > Len(seg) /\ SubSeq(str, 1, Len(seg)) = seg /\ str[Len(seg) + 1] = "."
ListedFrom(event, record) ==
    /\ event.ID = record.MessageID
    /\ FirstSegment(event.Source, record.EventType)
    /\ event.ResourceId = record.Payload.Target.ID
    /\ event.ResourceType = record.Payload.Target.TypeURI
\* C16: the list items are the events of the storage, in their order
C16_ListItemsFollowEvents ==
    (h.op = "GetEvents" /\ ~h.ret.err) =>
        /\ Len(h.ret.events) = Len(h.answer.events)
        /\ \A i \in 1..Len(h.answer.events) : ListedFrom(h.ret.events[i], h.answer.events[i])
\* two different events, listed with the flag on
C16_Witness ==
    /\ h.op = "GetEvents" /\ ~h.ret.err /\ enrich
    /\ h.answer.events = <<UserUpdated, ServerCreated>>
    /\ h.ret.events[1].ID = "m2" /\ h.ret.events[1].Source = <<"identity">>
    /\ h.ret.events[2].Source = <<"compute">>

(***************************************************************************)
(* C17.  A filter with limit = 0 is translated to a backend filter with    *)
(* limit = 10, and the bound is checked on that limit: an offset that fits *)
(* with limit 0 but not with limit 10 is rejected.  Offset 0 with limit    *)
(* MaxLimit is accepted, offset 1 with limit MaxLimit is rejected.         *)
(***************************************************************************)
ZeroLimit == Translated /\ h.filter.Limit = 0
\* C17: limit 0 becomes 10 before the bound is checked
C17_DefaultLimitChecked ==
    /\ ZeroLimit =>
          /\ h.sf.limit = 10
          /\ ~h.sf.err => h.sf.filter.Limit = 10 /\ h.sf.filter.Offset = h.filter.Offset
          /\ h.filter.Offset + 10 <= MaxLimit => ~h.sf.err
          /\ (h.filter.Offset <= MaxLimit /\ h.filter.Offset + 10 > MaxLimit) => h.sf.err
    /\ (Translated /\ h.filter.Limit = MaxLimit) =>
          /\ h.filter.Offset = 0 => ~h.sf.err /\ h.sf.filter.Limit = MaxLimit
          /\ h.filter.Offset = 1 => h.sf.err
\* offset 95 fits with limit 0 and not with limit 10
C17_Witness ==
    /\ ZeroLimit
    /\ h.filter.Offset = 95
    /\ h.sf.err

(***************************************************************************)
(* C18.  For every accepted filter the backend filter carries the source,  *)
(* resource_type, event_type, time and offset of the user's filter, the    *)
(* user's limit when it is not zero, and a sort of the same length with    *)
(* the same (field, direction) pairs in the same order.                    *)
(***************************************************************************)
Accepted == Translated /\ ~h.sf.err
SameOrder(a, b) == a.Fieldname = b.Fieldname /\ a.Order = b.Order
\* C18: the fields that need no translation are copied as they are
C18_FieldsCopied ==
    Accepted =>
        /\ h.sf.filter.Source = h.filter.Source
        /\ h.sf.filter.ResourceType = h.filter.ResourceType
        /\ h.sf.filter.EventType = h.filter.EventType
        /\ h.sf.filter.Time = h.filter.Time
        /\ h.sf.filter.Offset = h.filter.Offset
        /\ h.filter.Limit # 0 => h.sf.filter.Limit = h.filter.Limit
        /\ Len(h.sf.filter.Sort) = Len(h.filter.Sort)
        /\ \A i \in 1..Len(h.filter.Sort) : SameOrder(h.sf.filter.Sort[i], h.filter.Sort[i])
\* a filter with every copied field set and the two-element sort
C18_Witness ==
    /\ Accepted
    /\ h.filter.Source = "identity" /\ h.filter.EventType = "identity.project.deleted"
    /\ h.filter.Time # NoTime /\ h.filter.Limit = 20
    /\ h.sf.filter.Sort = <<FieldOrder("time", "desc"), FieldOrder("event_type", "asc")>>

(***************************************************************************)
(* C19.  The AuthContext derived from a token record has no key with an    *)
(* empty value; each tenant_* key is present exactly when the matching     *)
(* project_* key is, and then has the same value, so that tenant_id is     *)
(* project_id; roles lists the names of the token's roles in their order.  *)
(***************************************************************************)
TenantKeys ==
    {<<"tenant_id", "project_id">>, <<"tenant_name", "project_name">>,
     <<"tenant_domain_id", "project_domain_id">>,
     <<"tenant_domain_name", "project_domain_name">>}
Derived(p) == pc[p] = "done" /\ loc[p].op = "ToContext"
\* C19: no empty values, tenant_* as project_*, roles in order
C19_ContextKeys ==
    \A p \in Procs : Derived(p) =>
        LET auth == loc[p].ctx.Auth
            roles == loc[p].ctx.Roles
            token == loc[p].tok
        IN /\ \A k \in DOMAIN auth : auth[k] # ""
           /\ \A pair \in TenantKeys :
                 /\ pair[1] \in DOMAIN auth <=> pair[2] \in DOMAIN auth
                 /\ pair[1] \in DOMAIN auth => auth[pair[1]] = auth[pair[2]]
           /\ token.ProjectScope.ID # "" =>
                 "project_id" \in DOMAIN auth /\ auth["tenant_id"] = token.ProjectScope.ID
           /\ Len(roles) = Len(token.Roles)
           /\ \A i \in 1..Len(roles) : roles[i] = token.Roles[i].Name
\* a project without a name: tenant_id is there and tenant_name is not
C19_Witness ==
    \E p \in Procs :
        /\ Derived(p)
        /\ loc[p].tok.ProjectScope.ID = "p1" /\ loc[p].tok.ProjectScope.Name = ""
        /\ Len(loc[p].tok.Roles) = 2
        /\ "tenant_id" \in DOMAIN loc[p].ctx.Auth
        /\ "tenant_name" \notin DOMAIN loc[p].ctx.Auth

(***************************************************************************)
(* C20.  With enrichment on, the target name is resolved only when         *)
(* target.typeURI is data/security/project, by ProjectName(target.id); for *)
(* service/security/account/user and every other typeURI no call of the    *)
(* identity client is made for the target and the target name (the         *)
(* resource_name) returned is empty.  The initiator's domain_id,           *)
(* project_id and user_id are resolved whenever they are not empty.        *)
(* The package of part_002 has no flag: its enrichment is always on.       *)
(***************************************************************************)
TargetName(driver, type, id) ==
    IF type = "data/security/project" THEN driverName(driver, "ProjectName", id).name ELSE ""
DetailLookups(record) ==
    InitiatorLookups(record.Payload.Initiator)
        \o TargetLookup(record.Payload.Target.TypeURI, record.Payload.Target.ID)
TargetResolved(target, record) ==
    target = TargetName(h.driver, record.Payload.Target.TypeURI, record.Payload.Target.ID)
\* the list and the detail of events.go with the flag on
C20_Flagged ==
    /\ EnrichedList =>
          /\ h.ret.idCalls = ListLookups(h.answer.events)
          /\ \A i \in 1..Len(h.ret.events) :
                 TargetResolved(h.ret.events[i].ResourceName, h.answer.events[i])
    /\ EnrichedDetail =>
          /\ SelectSeq(h.ret.idCalls, LAMBDA c : c \notin Range(PayloadLookups(h.answer.event.Payload)))
                = SelectSeq(DetailLookups(h.answer.event),
                            LAMBDA c : c \notin Range(PayloadLookups(h.answer.event.Payload)))
          /\ TargetResolved(h.ret.event.Payload.Target.Name, h.answer.event)
\* the detail and the list of part_002
C20_Unflagged ==
    /\ (h.op = "GetEvent_part002" /\ h.answer.event # NilEvent) =>
          /\ h.ret.idCalls = DetailLookups(h.answer.event)
          /\ TargetResolved(h.ret.event.Payload.Target.Name, h.answer.event)
          /\ InitiatorLooked(h.driver, h.ret.event.Payload.Initiator, h.answer.event)
    /\ h.op = "GetEvents_part002" =>
          \A i \in 1..Len(h.ret.events) :
              h.ret.events[i].ResourceName
                  = TargetName(h.driver, h.ret.events[i].ResourceType, h.ret.events[i].ResourceId)
\* C20: only a project target is resolved, and the initiator's ids are
C20_OnlyProjectTargetResolved == C20_Flagged /\ C20_Unflagged

(***************************************************************************)
(* C21.  No lookup (token introspection, name or id GET) is sent to the    *)
(* identity provider while the service account's TokenID is empty: a call  *)
(* that needs the client either completes a refresh first or returns an    *)
(* error without sending the lookup, also after an earlier refresh has     *)
(* failed and while another goroutine's refresh is in progress.            *)
(***************************************************************************)
\* the lookup of goroutine p was sent with this TokenID
LookupSent(p) == loc[p].sentWith # "none"
\* C21: every lookup is sent with a token
C21_NoLookupWithoutToken == \A p \in Procs : LookupSent(p) => loc[p].sentWith # ""

(***************************************************************************)
(* C22.  At most one execution of RefreshToken is inside its critical      *)
(* section (from clearing TokenID to installing the new token and the      *)
(* endpoint locator) at any time, for any number of concurrent calls of    *)
(* the identity client, concurrent first use included; TokenID is cleared  *)
(* before the refresh request and set to the new token's id on success     *)
(* only.                                                                   *)
(***************************************************************************)
\* goroutine p has cleared TokenID and its token request is not answered yet
InRefresh(p) == pc[p] = "refresh"
\* C22: refreshes exclude each other, and TokenID stays cleared during one
C22_OneRefreshAtATime ==
    /\ \A p, q \in Procs : InRefresh(p) /\ InRefresh(q) => p = q
    /\ \A p \in Procs : InRefresh(p) => providerClient.TokenID = ""

(***************************************************************************)
(* C23.  In no reachable state does a goroutine hold a lock (a name        *)
(* cache's lock, the token cache's lock or the token renewal mutex) while  *)
(* a network call to the identity provider or the storage backend is in    *)
(* flight on that goroutine.                                               *)
(***************************************************************************)
\* a request of goroutine p is with the identity provider: the service
\* user's token request, or the lookup of the call
InFlight(p) == pc[p] \in {"refresh", "call"}
\* C23 as stated: no lock at all is held while a request is in flight
C23_NoLockAcrossNetwork == \A p \in Procs : InFlight(p) => loc[p].locks = {}
\* C23 amended: the only lock held while a request is in flight is the
\* renewal mutex, and it is held exactly while the goroutine's own token
\* request is in flight; no cache lock is held across any request
C23_OnlyRenewalMutexAcrossRefresh ==
    \A p \in Procs :
        InFlight(p) => loc[p].locks = (IF InRefresh(p) THEN {TokenRenewalMutex(p)} ELSE {})
\* a call that refreshed the service user's token has its lookup in flight
C23_Witness ==
    \E p \in Procs : pc[p] = "call" /\ loc[p].refreshed /\ loc[p].auths = 1
                        /\ loc[p].locks = {}

(***************************************************************************)
(* C24.  After every insert into the token cache, for any sequence of      *)
(* inserts with expiry instants arriving in any order, the list of expiry  *)
(* instants is sorted earliest first (non-decreasing from front to back).  *)
(***************************************************************************)
EarliestFirst(l) == \A i, j \in 1..Len(l) : i < j => l[i].v <= l[j].v
\* C24: the list is sorted after an insert
C24_ExpiryOrderSorted ==
    \A p \in Procs : (pc[p] = "done" /\ loc[p].op = "addTokenToCache") => EarliestFirst(eList)

(***************************************************************************)
(* C25.  When a get of the token cache at time now completes with no       *)
(* concurrent operation, the maximal prefix of the list of expiry instants *)
(* whose instants are <= now has been removed, and for each removed        *)
(* instant its bucket of token strings no longer exists and no token that  *)
(* was in that bucket remains in the map of tokens.                        *)
(***************************************************************************)
\* the length of the longest prefix of l whose instants are all <= t
PrefixLen(l, t) ==
    CHOOSE k \in 0..Len(l) :
        /\ \A i \in 1..k : l[i].v <= t
        /\ k < Len(l) => l[k + 1].v > t
\* goroutine p takes the step of its get that removes what it collected
Evicts(p) == pc[p] = "get_evict" /\ pc'[p] = "get_lookup"
PrefixEvicted(p) ==
    LET k == PrefixLen(eList, loc[p].now)
    IN /\ eList' = SubSeq(eList, k + 1, Len(eList))
       /\ \A i \in 1..k :
             /\ eList[i].v \notin DOMAIN eMap'
             /\ eList[i].v \in DOMAIN eMap =>
                    \A id \in Range(eMap[eList[i].v]) : id \notin DOMAIN tMap'
\* C25: a get that runs alone removes the expired prefix, its buckets and
\* their tokens
C25_ExpiredPrefixRemoved == [][\A p \in Procs : Evicts(p) => PrefixEvicted(p)]_vars
\* a get has removed a prefix of two instants, the tokens of its buckets
\* are gone, and an instant later than the time of the get is left
C25_Witness ==
    \E p \in Procs :
        /\ pc[p] = "get_lookup"
        /\ Len(loc[p].elemsToRemove) = 2
        /\ Len(eList) > 0
        /\ eList[1].v > loc[p].now
        /\ \A i \in 1..2 : loc[p].elemsToRemove[i].v \notin DOMAIN eMap

(***************************************************************************)
(* C26.  A get of the token cache never removes a token whose expires_at   *)
(* is later than the time that get sampled, under any interleaving of      *)
(* concurrent gets and inserts (two gets that collected the same expired   *)
(* elements before either took the write lock included); e.g. with tokens  *)
(* expiring at now+1s and now+2s, a get at now+1.5s leaves exactly the     *)
(* second one and the size of the cache is 1.  The clock of the model      *)
(* ticks in whole instants: the example is two tokens expiring at instants *)
(* 1 and 2 and a get that samples instant 1.                               *)
(***************************************************************************)
ExpiryOf(token) == token.ExpiresAt.at
\* the step removes no token that expires after the time the get sampled
KeepsLater(p) ==
    \A id \in DOMAIN tMap : id \notin DOMAIN tMap' => ExpiryOf(tMap[id]) <= loc[p].now
\* the cache holds two tokens, one expiring at 1 and one at 2, each in the
\* bucket of its instant, and the list holds these two instants
TwoTokens ==
    /\ DOMAIN tMap = TokenIds
    /\ {ExpiryOf(tMap[id]) : id \in TokenIds} = {1, 2}
    /\ DOMAIN eMap = {1, 2}
    /\ \A id \in TokenIds : eMap[ExpiryOf(tMap[id])] = <<id>>
    /\ {eList[i].v : i \in 1..Len(eList)} = {1, 2}
    /\ Len(eList) = 2
LeavesSecond(p) ==
    (TwoTokens /\ loc[p].now = 1)
        => (Cardinality(DOMAIN tMap') = 1 /\ \A id \in DOMAIN tMap' : ExpiryOf(tMap'[id]) = 2)
\* C26: a get removes only what has expired, and all of it in the example
C26_OnlyExpiredRemoved ==
    [][\A p \in Procs : Evicts(p) => (KeepsLater(p) /\ LeavesSecond(p))]_vars

(***************************************************************************)
(* C27.  For each of DomainName, ProjectName, UserName, RoleName and       *)
(* GroupName: a cache hit returns the cached name with no call of the      *)
(* identity provider; a miss sends one single-entity GET and on success    *)
(* writes the name to the cache, so that every later call for the same id  *)
(* returns that name with no call of the identity provider (the entries    *)
(* are never evicted).                                                     *)
(***************************************************************************)
NameCall(p) == loc[p].op \in NameOps
\* a hit has returned the cached name and has sent nothing
HitReturns(p) ==
    (NameCall(p) /\ loc[p].hit) =>
        /\ pc[p] = "done"
        /\ loc[p].lookups = 0 /\ loc[p].auths = 0
        /\ loc[p].ret = getFromCache(cacheOf(loc[p].op), loc[p].arg).value
\* a miss sends at most one GET, and one that has returned a name has sent
\* exactly one and has written the name
MissWrites(p) ==
    (NameCall(p) /\ ~loc[p].hit) =>
        /\ loc[p].lookups <= 1
        /\ (pc[p] = "done" /\ ~loc[p].err) =>
               /\ loc[p].lookups = 1
               /\ getFromCache(cacheOf(loc[p].op), loc[p].arg)
                      = [value |-> loc[p].ret, exists |-> TRUE]
\* the name written for an id is the name every later call finds
EntryStays(c, id) == getFromCache(c, id)' = getFromCache(c, id)
\* C27: the name caches are read through, and what is written stays
C27_ReadThroughNames ==
    [][/\ \A p \in Procs : HitReturns(p)' /\ MissWrites(p)'
       /\ \A c \in NameCaches : \A id \in DOMAIN caches[c] : EntryStays(c, id)]_vars

(***************************************************************************)
(* C28.  With enrichment on, hermes.GetEvent and hermes.GetEvents change   *)
(* only name fields of an event: every id, type, time, action, outcome,    *)
(* observer and host field of the returned event equals the value in the   *)
(* record the storage returned.                                            *)
(***************************************************************************)
\* the event with the eight names of the record put back
WithNamesOf(event, record) ==
    [event EXCEPT !.Payload.Initiator.DomainName = record.Payload.Initiator.DomainName,
                  !.Payload.Initiator.ProjectName = record.Payload.Initiator.ProjectName,
                  !.Payload.Initiator.UserName = record.Payload.Initiator.UserName,
                  !.Payload.Target.Name = record.Payload.Target.Name,
                  !.Payload.ProjectName = record.Payload.ProjectName,
                  !.Payload.UserName = record.Payload.UserName,
                  !.Payload.GroupName = record.Payload.GroupName,
                  !.Payload.RoleName = record.Payload.RoleName]
\* the fields of a list item that are no names, next to the record's
ListedFieldsKept(item, record) ==
    /\ item.ID = record.MessageID
    /\ item.Type = record.EventType
    /\ item.Time = record.Payload.EventTime
    /\ item.ResourceId = record.Payload.Target.ID
    /\ item.ResourceType = record.Payload.Target.TypeURI
    /\ item.Initiator.TypeURI = record.Payload.Initiator.TypeURI
    /\ item.Initiator.ID = record.Payload.Initiator.ID
    /\ item.Initiator.DomainID = record.Payload.Initiator.DomainID
    /\ item.Initiator.ProjectID = record.Payload.Initiator.ProjectID
    /\ item.Initiator.UserID = record.Payload.Initiator.UserID
    /\ item.Initiator.Host = record.Payload.Initiator.Host
\* C28: enrichment writes names and nothing else
C28_OnlyNamesChanged ==
    /\ EnrichedList =>
          /\ Len(h.ret.events) = Len(h.answer.events)
          /\ \A i \in 1..Len(h.ret.events) :
                 ListedFieldsKept(h.ret.events[i], h.answer.events[i])
    /\ EnrichedDetail => WithNamesOf(h.ret.event, h.answer.event) = h.answer.event
\* enrichment has replaced the user name of an initiator, in a list or in a
\* detail, and the ids next to it are those of the record
C28_Witness ==
    \/ /\ EnrichedList
       /\ \E i \in 1..Len(h.ret.events) :
             /\ h.ret.events[i].Initiator.UserName
                    # h.answer.events[i].Payload.Initiator.UserName
             /\ h.ret.events[i].Initiator.UserName # ""
             /\ h.ret.events[i].Initiator.UserID # ""
             /\ ListedFieldsKept(h.ret.events[i], h.answer.events[i])
    \/ /\ EnrichedDetail
       /\ h.ret.event # h.answer.event
       /\ h.ret.event.Payload.Initiator.UserName # ""
       /\ h.ret.event.Payload.Initiator.UserID = h.answer.event.Payload.Initiator.UserID

(***************************************************************************)
(* C29.  A lookup of a name or an id (DomainName, ProjectName, UserName,   *)
(* RoleName, GroupName, UserId) that returns an error leaves every name    *)
(* cache and id cache unchanged; so no cache ever holds an empty string as *)
(* key or value, and repeating a failed lookup (UserId for a name that no  *)
(* user has, say) asks the identity provider again and returns an error    *)
(* again instead of succeeding from the cache.                             *)
(***************************************************************************)
\* goroutine p is in a lookup that returns an error
Failing(p) == loc[p].op \in LookupOps /\ loc[p].err
NoEmptyEntry(c) == \A k \in DOMAIN caches[c] : k # "" /\ caches[c][k] # ""
\* a lookup served from the cache is not one that failed before
NoHitOnFailure(p) ==
    (loc[p].op \in LookupOps /\ loc[p].hit) => loc[p].ret # ""
\* C29: failed lookups write nothing
C29_FailedLookupWritesNothing ==
    [][/\ \A p \in Procs : Failing(p) => caches' = caches
       /\ \A c \in DOMAIN caches : NoEmptyEntry(c)'
       /\ \A p \in Procs : NoHitOnFailure(p)']_vars

(***************************************************************************)
(* C30.  In every reachable state of the token cache, under any            *)
(* interleaving of inserts and gets, the three indices agree: every token  *)
(* string in the map of tokens is a member of the bucket of its expiry     *)
(* instant, and every instant that has a bucket occurs in the list of      *)
(* instants, so every cached token is reachable by the eviction scan.      *)
(***************************************************************************)
InBucket(id) ==
    /\ ExpiryOf(tMap[id]) \in DOMAIN eMap
    /\ id \in Range(eMap[ExpiryOf(tMap[id])])
Listed(t) == \E i \in 1..Len(eList) : eList[i].v = t
\* C30: the map of tokens, the buckets and the list agree
C30_IndicesAgree ==
    /\ \A id \in DOMAIN tMap : InBucket(id)
    /\ \A t \in DOMAIN eMap : Listed(t)
\* a get has removed an instant that another get had collected too, and a
\* token of a later instant is still cached
C30_Witness ==
    \E p, q \in Procs :
        /\ p # q
        /\ pc[p] = "get_lookup" /\ Len(loc[p].elemsToRemove) > 0
        /\ pc[q] = "get_evict" /\ loc[q].elemsToRemove = loc[p].elemsToRemove
        /\ \A e \in Range(loc[p].elemsToRemove) : e.v \notin DOMAIN eMap
        /\ \E id \in DOMAIN tMap : ExpiryOf(tMap[id]) > loc[p].now

(***************************************************************************)
(* C31.  With enrichment on, hermes.GetEvent and hermes.GetEvents never    *)
(* replace a name that the record of the backend carries and that is not   *)
(* empty (the initiator's domain_name, project_name and user_name; the     *)
(* target's name; the payload's project_name, user_name, group_name and    *)
(* role_name) with the empty string when the id is empty, when its lookup  *)
(* fails, or when the type of the target is not one that is resolved.      *)
(***************************************************************************)
\* a name the record carries has not been replaced with the empty string
NotBlanked(returned, stored) == stored # "" => returned # ""
InitiatorNotBlanked(returned, stored) ==
    /\ NotBlanked(returned.DomainName, stored.DomainName)
    /\ NotBlanked(returned.ProjectName, stored.ProjectName)
    /\ NotBlanked(returned.UserName, stored.UserName)
\* C31: the names the backend stored survive enrichment
C31_StoredNamesNotBlanked ==
    /\ EnrichedList =>
          \A i \in 1..Len(h.ret.events) :
              /\ InitiatorNotBlanked(h.ret.events[i].Initiator,
                                     h.answer.events[i].Payload.Initiator)
              /\ NotBlanked(h.ret.events[i].ResourceName,
                            h.answer.events[i].Payload.Target.Name)
    /\ EnrichedDetail =>
          /\ InitiatorNotBlanked(h.ret.event.Payload.Initiator,
                                 h.answer.event.Payload.Initiator)
          /\ NotBlanked(h.ret.event.Payload.Target.Name, h.answer.event.Payload.Target.Name)
          /\ NotBlanked(h.ret.event.Payload.ProjectName, h.answer.event.Payload.ProjectName)
          /\ NotBlanked(h.ret.event.Payload.UserName, h.answer.event.Payload.UserName)
          /\ NotBlanked(h.ret.event.Payload.GroupName, h.answer.event.Payload.GroupName)
          /\ NotBlanked(h.ret.event.Payload.RoleName, h.answer.event.Payload.RoleName)

====
